---- MODULE Spec2Model ----
(***************************************************************************)
(* linkmind: the durable link pipeline (process-link / refresh-related),   *)
(* the probe bridge (SSE subscriptions, pending-event replay, result       *)
(* callback) and the store operations they use.                            *)
(***************************************************************************)
EXTENDS Integers, Sequences, FiniteSets, TLC

(* ---------------------------------------------------------------- *)
(* Bounds of the exploration                                         *)
(* ---------------------------------------------------------------- *)
MaxTasks == 2
MaxConns == 1
MaxFaults == 1
NumUsers == 1
NumRelLinks == 7
NumRunners == 2
MaxDeletes == 1
MaxRetryFaults == 3
NumAuthUsers == 2
MaxAuthReqs == 2
MaxDevices == 2
ExpiryTicks == 2
MaxTime == 3
MaxPosts == 2
MaxSaves == 2
MaxFailures == 7
MaxProcs == 3
MaxScrapes == 2
NumOwnerLinks == 5

(* ---------------------------------------------------------------- *)
(* Program constants                                                 *)
(* ---------------------------------------------------------------- *)
Concurrency == 2
ProcessLinkMaxAttempts == 3
RefreshRelatedMaxAttempts == 2
ERROR_MESSAGE_MAX == 1000
\* the probe daemon's and the server's timer values, in milliseconds
initialBackoff == 5000
maxBackoff == 60000
HEARTBEAT_TIMEOUT == 60000
HEARTBEAT_CHECK == 10000
PING_INTERVAL == 30000
RELATED_SCORE_THRESHOLD == 65
RELATED_MAX_COUNT == 5
SEARCH_LIMIT == 10
GET_RELATED_MAX == 5

MaxLinks == MaxTasks
MaxEvents == MaxTasks

Users == 1..NumUsers

AuthUsers == 1..NumAuthUsers
NoAuthReq == [noreq |-> TRUE]
NoAuthz == [noauthz |-> TRUE]
NoResp == [op |-> "none", n |-> 0]
NoCall == [nocall |-> TRUE]
Pids == 1..MaxProcs
NoExit == [cmd |-> "none", code |-> 0, out |-> "none"]
NoDevice == [nodevice |-> TRUE]

Null == "null"
Undef == "undefined"
NoLink == [nolink |-> TRUE]
NoData == "nodata"

Steps == <<"scrape", "summarize", "embed", "related", "insight", "export">>
StepSet == {Steps[i] : i \in 1..Len(Steps)}

(* ---------------------------------------------------------------- *)
(* URLs: a host and the path's segments, each a sequence of chars     *)
(* ---------------------------------------------------------------- *)
Digit == {"0", "1", "2", "3", "4", "5", "6", "7", "8", "9"}
StatusSeg == <<"s", "t", "a", "t", "u", "s">>

WebUrl == [host |-> "example.com", path |-> << <<"a">> >>]
TwUrl == [host |-> "twitter.com", path |-> << <<"x">>, StatusSeg, <<"1", "2", "3">> >>]
BadUrl == [host |-> "", path |-> <<>>, invalid |-> TRUE]

\* what the clients of one run submit, how many probe connections it sees, how many
\* failures it suffers and with which messages (their length, the text they contain):
\* web pages through the API and the bot, tweets through
\* the API with probes, or a store that an earlier tweet submission left suspended on
\* its pending probe event (that task, completed, has left the queue)
Runs == {[urls |-> {WebUrl}, bot |-> {WebUrl}, conns |-> 0, faults |-> MaxFaults,
          suspended |-> FALSE, msgs |-> {ERROR_MESSAGE_MAX - 1},
          errs |-> {"Timeout", "net::ERR_ABORTED"}],
         [urls |-> {TwUrl}, bot |-> {}, conns |-> MaxConns, faults |-> MaxFaults,
          suspended |-> FALSE, msgs |-> {ERROR_MESSAGE_MAX - 1},
          errs |-> {"Timeout", "net::ERR_ABORTED"}],
         [urls |-> {}, bot |-> {}, conns |-> MaxConns, faults |-> 0,
          suspended |-> TRUE, msgs |-> {}, errs |-> {}]}

\* new URL(url) throws on a string that is no URL: the catch returns false
isTwitterUrl(url) ==
  /\ "invalid" \notin DOMAIN url
  /\ url.host \in {"twitter.com", "www.twitter.com", "x.com", "www.x.com"}
  /\ \E i \in 1..(Len(url.path) - 1) :
       /\ url.path[i] = StatusSeg
       /\ Len(url.path[i + 1]) > 0
       /\ url.path[i + 1][1] \in Digit

(* The payload a probe builds from a scraped tweet: markdown and og_title present *)
GoodData == "tweet"
ScoreValues == {64, 65, 80}

VARIABLES run, links, linkSeq, tasks, events, conns, rels, purl, faults,
          authReqs, devices, authz, resp, now, saving, daemon, probe

\* the state outside the pipeline and the probe bridge: device authorization (authReqs,
\* devices, authorize requests between their two statements, the last response, the
\* clock), saveRelatedLinks calls between their two statements (saving), the probe
\* daemon's event loop (daemon)
others == <<authReqs, devices, authz, resp, now, saving, daemon, probe>>

vars == <<run, links, linkSeq, tasks, events, conns, rels, purl, faults, others>>

(* ---------------------------------------------------------------- *)
(* Store gateway: links                                              *)
(* ---------------------------------------------------------------- *)
LinkIds == {i \in DOMAIN links : links[i] # NoLink}

NewLink(userId, url) ==
  [user_id |-> userId, url |-> url, status |-> "pending", og_title |-> Null,
   markdown |-> Null, summary |-> Null, tags |-> "[]", summary_embedding |-> Null,
   insight |-> Null, error_message |-> Null, error_message_len |-> 0,
   related_links |-> <<>>, searched |-> <<>>]

insertLink(userId, url) == [links EXCEPT ![linkSeq + 1] = NewLink(userId, url)]

\* Kysely drops the keys whose value is undefined from the SET clause
updateLink(ls, id, data) ==
  IF id \in DOMAIN ls /\ ls[id] # NoLink
  THEN LET old == ls[id] IN
       [ls EXCEPT ![id] = [f \in DOMAIN old |->
                             IF f \in DOMAIN data /\ data[f] # Undef THEN data[f] ELSE old[f]]]
  ELSE ls

\* the number of characters of the text stored in error_message
messageLength(ls, id, len) ==
  IF id \in DOMAIN ls /\ ls[id] # NoLink THEN [ls EXCEPT ![id].error_message_len = len] ELSE ls

getLink(id) == IF id \in DOMAIN links THEN links[id] ELSE NoLink

\* the lookup restricted to rows that are still pending
getLinkByUrl_PendingOnly(userId, url) ==
  LET hits == {i \in LinkIds : links[i].user_id = userId /\ links[i].url = url
                                 /\ links[i].status = "pending"} IN
  IF hits = {} THEN 0 ELSE CHOOSE i \in hits : \A j \in hits : j <= i

\* ORDER BY id DESC LIMIT 1; 0 when there is no row
getLinkByUrl(userId, url) ==
  LET hits == {i \in LinkIds : links[i].user_id = userId /\ links[i].url = url} IN
  IF hits = {} THEN 0 ELSE CHOOSE i \in hits : \A j \in hits : j <= i

(* ---------------------------------------------------------------- *)
(* Store gateway: probe events                                       *)
(* ---------------------------------------------------------------- *)
EventIds == 1..Len(events)

createProbeEvent(userId, linkId, url, urlType) ==
  Append(events,
    [user_id |-> userId, link_id |-> linkId, url |-> url, url_type |-> urlType,
     status |-> "pending", result |-> Null, error |-> Null,
     created_at |-> Len(events) + 1, sent_at |-> Null, completed_at |-> Null,
     delivered |-> FALSE])

updateProbeEventStatus(evs, id, status, result, error) ==
  [evs EXCEPT ![id] =
     [@ EXCEPT !.status = status,
               !.result = IF result # Undef THEN result ELSE @,
               !.error = IF error # Undef THEN error ELSE @,
               !.sent_at = IF status = "sent" THEN "now" ELSE @,
               !.completed_at = IF status \in {"completed", "error"} THEN "now" ELSE @]]

RECURSIVE SortByCreated(_)
SortByCreated(S) ==
  IF S = {} THEN <<>>
  ELSE LET first == CHOOSE e \in S : \A o \in S : events[e].created_at <= events[o].created_at
       IN <<first>> \o SortByCreated(S \ {first})

\* the query without its status filter
getPendingProbeEvents_AnyStatus(userId) ==
  SortByCreated({e \in EventIds : events[e].user_id = userId})

getPendingProbeEvents(userId) ==
  SortByCreated({e \in EventIds : events[e].user_id = userId /\ events[e].status = "pending"})

(* ---------------------------------------------------------------- *)
(* Probe bridge: the subscription map                                *)
(* ---------------------------------------------------------------- *)
\* a slot holds a subscription from its request until its sink is closed and its
\* replay callback has finished
NoConn == [noconn |-> TRUE]

ConnIds == {c \in 1..MaxConns : conns[c] # NoConn}

probeConnections(userId) == {c \in ConnIds : conns[c].user = userId /\ conns[c].open}

\* res.write(msg) on every registered connection of the user
pushEventToProbe(cs, userId, e) ==
  [c \in DOMAIN cs |->
     IF cs[c] # NoConn /\ cs[c].user = userId /\ cs[c].open
     THEN [cs[c] EXCEPT !.got = @ \cup {e}]
     ELSE cs[c]]

(* ---------------------------------------------------------------- *)
(* Durable tasks                                                     *)
(* ---------------------------------------------------------------- *)
TaskIds == 1..Len(tasks)

NewTask(kind, userId, url, linkId, scrapeData) ==
  [kind |-> kind, userId |-> userId, url |-> url, linkId |-> linkId,
   scrapeData |-> scrapeData, state |-> "queued", attempts |-> 0, cps |-> {},
   at |-> "idle", ph |-> "run", lid |-> 0, found |-> 0, err |-> Null, errLen |-> 0,
   result |-> Null, log |-> <<>>, evs |-> {}, cloud |-> 0, ev |-> 0,
   row |-> 0, killed |-> 0]

maxAttempts(kind) ==
  IF kind = "process-link" THEN ProcessLinkMaxAttempts ELSE RefreshRelatedMaxAttempts

spawnProcessLink(userId, url, linkId, scrapeData) ==
  Append(tasks, NewTask("process-link", userId, url, linkId, scrapeData))

Running == {t \in TaskIds : tasks[t].state = "running"}

\* nothing is in flight in the server outside the pipeline
ServerIdle ==
  /\ authReqs = <<>>
  /\ devices = <<>>
  /\ authz = [u \in AuthUsers |-> NoAuthz]
  /\ resp = NoResp
  /\ now = 0
  /\ saving = [c \in 1..MaxSaves |-> NoCall]

\* the event loop of process pid at its first turn, no scrape in flight
LoopStart(pid) ==
  [pid |-> pid, state |-> "connecting", backoff |-> initialBackoff, wait |-> 0,
   sinceEvent |-> 0, toCheck |-> 0, toPing |-> 0, pinged |-> FALSE,
   waits |-> 0, lastWait |-> 0, cancelled |-> FALSE, scraping |-> 0, uploading |-> 0,
   failed |-> FALSE, abortedIn |-> "none"]

\* one probe daemon, process 1, has written its PID file and entered its event loop
OthersInit ==
  /\ ServerIdle
  /\ daemon = LoopStart(1)
  /\ probe = [pidFile |-> 1, procs |-> [p \in Pids |-> IF p = 1 THEN "daemon" ELSE "none"],
              waiting |-> {}, exit |-> NoExit]

Init ==
  /\ run \in Runs
  /\ links = [i \in 1..MaxLinks |->
                IF run.suspended /\ i = 1
                THEN [NewLink(1, TwUrl) EXCEPT !.status = "waiting_probe"]
                ELSE NoLink]
  /\ linkSeq = IF run.suspended THEN 1 ELSE 0
  /\ tasks = <<>>
  /\ events = IF run.suspended
              THEN <<[user_id |-> 1, link_id |-> 1, url |-> TwUrl, url_type |-> "twitter",
                      status |-> "pending", result |-> Null, error |-> Null,
                      created_at |-> 1, sent_at |-> Null, completed_at |-> Null,
                      delivered |-> FALSE]>>
              ELSE <<>>
  /\ conns = [c \in 1..MaxConns |-> NoConn]
  /\ rels = {}
  /\ purl = [busy |-> FALSE, userId |-> 0, url |-> BadUrl, existing |-> 0]
  /\ faults = 0
  /\ OthersInit

(* ---------------------------------------------------------------- *)
(* Admission API                                                     *)
(* ---------------------------------------------------------------- *)
\* POST /api/links: spawnProcessLink(req.userId, url)
PostLinks(u, url) ==
  /\ Len(tasks) < MaxTasks
  /\ tasks' = spawnProcessLink(u, url, 0, NoData)
  /\ UNCHANGED <<others, run, links, linkSeq, events, conns, rels, purl, faults>>

\* processUrl: the SELECT
ProcessUrlSelect(u, url) ==
  /\ ~purl.busy
  /\ Len(tasks) < MaxTasks
  /\ purl' = [busy |-> TRUE, userId |-> u, url |-> url, existing |-> getLinkByUrl(u, url)]
  /\ UNCHANGED <<others, run, links, linkSeq, tasks, events, conns, rels, faults>>

\* processUrl: spawn for the existing row, or INSERT and spawn
ProcessUrlSpawn ==
  /\ purl.busy
  /\ Len(tasks) < MaxTasks
  /\ IF purl.existing # 0
     THEN /\ tasks' = spawnProcessLink(purl.userId, purl.url, purl.existing, NoData)
          /\ UNCHANGED <<others, run, links, linkSeq>>
     ELSE /\ linkSeq < MaxLinks
          /\ links' = insertLink(purl.userId, purl.url)
          /\ linkSeq' = linkSeq + 1
          /\ tasks' = spawnProcessLink(purl.userId, purl.url, linkSeq + 1, NoData)
  /\ purl' = [busy |-> FALSE, userId |-> 0, url |-> BadUrl, existing |-> 0]
  /\ UNCHANGED <<others, run, events, conns, rels, faults>>

\* POST /api/retry/:id and POST /api/retry
retryLink(id) ==
  /\ id \in LinkIds
  /\ Len(tasks) < MaxTasks
  /\ tasks' = spawnProcessLink(links[id].user_id, links[id].url, id, NoData)
  /\ UNCHANGED <<others, run, links, linkSeq, events, conns, rels, purl, faults>>

spawnRefreshRelated(id) ==
  /\ id \in LinkIds
  /\ Len(tasks) < MaxTasks
  /\ tasks' = Append(tasks, NewTask("refresh-related", links[id].user_id, links[id].url, id, NoData))
  /\ UNCHANGED <<others, run, links, linkSeq, events, conns, rels, purl, faults>>

(* ---------------------------------------------------------------- *)
(* Probe bridge                                                      *)
(* ---------------------------------------------------------------- *)
\* GET /api/probe/subscribe_events: register the sink and query the pending events
subscribe(u) ==
  \E c \in 1..run.conns :
    /\ conns[c] = NoConn
    /\ \A b \in 1..(c - 1) : conns[b] # NoConn
    /\ conns' = [conns EXCEPT ![c] =
         [user |-> u, open |-> TRUE, replay |-> getPendingProbeEvents(u),
          pendingAtSub |-> {e \in EventIds : events[e].user_id = u /\ events[e].status = "pending"},
          written |-> <<>>, got |-> {}]]

\* a probe of user u subscribes: the accepted requests
Subscribe(u) ==
  /\ subscribe(u)
  /\ UNCHANGED <<others, run, links, linkSeq, tasks, events, rels, purl, faults>>

\* SELECT * FROM probe_devices WHERE access_token = ?
getProbeDeviceByToken(token) ==
  LET found == {d \in DOMAIN devices : devices[d].access_token = token} IN
  IF found = {} THEN NoDevice ELSE devices[CHOOSE d \in found : TRUE]

updateProbeDeviceLastSeen(ds, id) ==
  [d \in DOMAIN ds |-> IF ds[d].id = id THEN [ds[d] EXCEPT !.last_seen_at = "now"] ELSE ds[d]]

\* GET /api/probe/subscribe_events with a bearer token: requireProbeAuth answers 401
\* for a token of no device, otherwise sets req.userId to the device's owner and the
\* route registers the sink under that user
SubscribeEvents(token) ==
  /\ LET device == getProbeDeviceByToken(token) IN
     IF device = NoDevice
     THEN UNCHANGED <<conns, devices>>
     ELSE /\ subscribe(device.user_id)
          /\ devices' = updateProbeDeviceLastSeen(devices, device.id)
  /\ UNCHANGED <<run, links, linkSeq, tasks, events, rels, purl, faults,
                 authReqs, authz, resp, now, saving, daemon, probe>>

\* one turn of the replay loop: res.write, then updateProbeEventStatus(id, 'sent')
ReplayNext(c) ==
  /\ c \in ConnIds
  /\ conns[c].replay # <<>>
  /\ LET e == Head(conns[c].replay) IN
     /\ conns' = [conns EXCEPT ![c] =
            IF ~conns[c].open /\ Tail(conns[c].replay) = <<>>
            THEN NoConn
            ELSE [@ EXCEPT !.replay = Tail(@),
                           !.written = IF conns[c].open THEN Append(@, e) ELSE @]]
     /\ events' = [updateProbeEventStatus(events, e, "sent", Undef, Undef)
                     EXCEPT ![e].delivered = @ \/ conns[c].open]
  /\ UNCHANGED <<others, run, links, linkSeq, tasks, rels, purl, faults>>

\* req.on('close')
Close(c) ==
  /\ c \in ConnIds
  /\ conns[c].open
  /\ conns' = [conns EXCEPT ![c] =
       IF conns[c].replay = <<>>
       THEN NoConn
       ELSE [@ EXCEPT !.open = FALSE, !.pendingAtSub = {}, !.written = <<>>, !.got = {}]]
  /\ UNCHANGED <<others, run, links, linkSeq, tasks, events, rels, purl, faults>>

\* the re-spawn without the payload
handleProbeResult_NoPayload(e, scrapeData) ==
  LET linkId == events[e].link_id IN
  IF getLink(linkId) = NoLink
  THEN tasks
  ELSE spawnProcessLink(getLink(linkId).user_id, events[e].url, linkId, NoData)

\* handleProbeResult: look the event and its link up, spawn process-link with the payload
\* (a missing link throws after the event was updated: nothing is spawned)
handleProbeResult(e, scrapeData) ==
  LET linkId == events[e].link_id IN
  IF getLink(linkId) = NoLink
  THEN tasks
  ELSE spawnProcessLink(getLink(linkId).user_id, events[e].url, linkId, scrapeData)

\* the test without the comparison of the event's user
ownsEvent_AnyUser(u, e) == e \in EventIds

\* !event || event.user_id !== req.userId is answered 404
ownsEvent(u, e) == e \in EventIds /\ events[e].user_id = u

\* the message stored whatever the probe sent
errorOrUnknown_Fixed(error) == "Unknown error"

\* error || 'Unknown error'
errorOrUnknown(error) == IF error = Undef \/ error = "" THEN "Unknown error" ELSE error

\* receive_result after its 404 test
receiveResult(e, success, data, error) ==
  IF success
  THEN /\ Len(tasks) < MaxTasks
       /\ events' = updateProbeEventStatus(events, e, "completed",
                       IF data = NoData THEN Undef ELSE data, Undef)
       /\ tasks' = LET spawned == handleProbeResult(e, data) IN
                    IF Len(spawned) > Len(tasks)
                    THEN [spawned EXCEPT ![Len(spawned)].ev = e]
                    ELSE spawned
  ELSE /\ events' = updateProbeEventStatus(events, e, "error", Undef, errorOrUnknown(error))
       /\ UNCHANGED tasks

\* POST /api/probe/receive_result from a device of user u that was sent event e and
\* reports a failure without a message: the accepted calls, their answer left out
ReceiveResult(u, e, success, data) ==
  /\ ownsEvent(u, e)
  /\ events[e].delivered
  /\ ~success => data = NoData
  /\ receiveResult(e, success, data, Undef)
  /\ UNCHANGED <<others, run, links, linkSeq, conns, rels, purl, faults>>

\* POST /api/probe/receive_result with its answer, from any device with any event id
PostReceiveResult(u, e, success, data, error) ==
  /\ resp.n < MaxPosts
  /\ IF ownsEvent(u, e)
     THEN /\ receiveResult(e, success, data, error)
          /\ resp' = [op |-> "receive_result", n |-> resp.n + 1, http |-> 200, user |-> u,
                      event_id |-> e, success |-> success, error |-> error]
     ELSE /\ resp' = [op |-> "receive_result", n |-> resp.n + 1, http |-> 404, user |-> u,
                      event_id |-> e, success |-> success, error |-> error]
          /\ UNCHANGED <<events, tasks>>
  /\ UNCHANGED <<run, links, linkSeq, conns, rels, purl, faults,
                 authReqs, devices, authz, now, saving, daemon, probe>>

(* ---------------------------------------------------------------- *)
(* Durable task runtime (absurd-sdk): claim, step memoization, retry *)
(* ---------------------------------------------------------------- *)
Idle(task) ==
  [task EXCEPT !.at = "idle", !.ph = "run", !.lid = 0, !.found = 0, !.err = Null, !.errLen = 0]

\* a worker claims a queued task while one of its `concurrency` slots is free
Claim(t) ==
  /\ t \in TaskIds
  /\ tasks[t].state = "queued"
  /\ Cardinality(Running) < Concurrency
  /\ tasks' = [tasks EXCEPT ![t].state = "running",
                            ![t].at = IF tasks[t].kind = "process-link" THEN "resolve" ELSE "rr_read"]
  /\ UNCHANGED <<others, run, links, linkSeq, events, conns, rels, purl, faults>>

\* the handler threw: the retry policy re-queues the task up to maxAttempts
FailAttempt(task) ==
  [Idle(task) EXCEPT !.attempts = @ + 1,
                     !.state = IF task.attempts + 1 < maxAttempts(task.kind) THEN "queued" ELSE "failed"]

NextStep(at) ==
  CASE at = "scrape" -> "summarize"
    [] at = "summarize" -> "embed"
    [] at = "embed" -> "related"
    [] at = "related" -> "insight"
    [] at = "insight" -> "export"
    [] at = "export" -> "return"

\* ctx.step(name, fn) returns the checkpoint of a memoized step without running fn:
\* the handler moves on to the first step from `at` on that has no checkpoint
RECURSIVE SkipMemoized(_, _)
SkipMemoized(at, cps) ==
  IF at \in StepSet /\ at \in cps THEN SkipMemoized(NextStep(at), cps) ELSE at

Goto(task, at) ==
  LET to == SkipMemoized(at, task.cps) IN
  [task EXCEPT !.at = to, !.ph = "run",
               !.result = IF to = "return"
                          THEN (IF task.kind = "process-link" THEN "analyzed" ELSE "refreshed")
                          ELSE @]

\* fn returned: its value is persisted as the step's checkpoint
Checkpoint(t) ==
  /\ t \in Running
  /\ tasks[t].ph = "cp"
  /\ tasks' = [tasks EXCEPT ![t] = Goto([@ EXCEPT !.cps = @ \cup {tasks[t].at}], NextStep(tasks[t].at))]
  /\ UNCHANGED <<others, run, links, linkSeq, events, conns, rels, purl, faults>>

\* the handler returned: the result is persisted and the task is completed
Complete(t) ==
  /\ t \in Running
  /\ tasks[t].at = "return"
  /\ tasks' = [tasks EXCEPT ![t] = [Idle(@) EXCEPT !.state = "completed"]]
  /\ UNCHANGED <<others, run, links, linkSeq, events, conns, rels, purl, faults>>

\* the worker dies or its claim lease expires: the task is queued again
Crash(t) ==
  /\ t \in Running
  /\ faults < run.faults
  /\ faults' = faults + 1
  /\ tasks' = [tasks EXCEPT ![t] =
       [Idle(@) EXCEPT !.state = "queued", !.result = Null,
                       !.killed = IF tasks[t].at = "summarize" THEN Len(tasks[t].log) + 1 ELSE @]]
  /\ UNCHANGED <<others, run, links, linkSeq, events, conns, rels, purl>>

(* ---------------------------------------------------------------- *)
(* process-link handler                                              *)
(* ---------------------------------------------------------------- *)
ResetPending == [status |-> "pending", error_message |-> Undef]

\* the scrape body called directly instead of through ctx.step('scrape', ...)
EnterScrape_NoCtxStep(task) == [task EXCEPT !.at = "scrape", !.ph = "run"]

\* the probe-required branch calls no ctx.step; the other two run ctx.step('scrape', ...)
EnterScrape(task) ==
  IF task.scrapeData = NoData /\ isTwitterUrl(task.url)
  THEN [task EXCEPT !.at = "scrape"]
  ELSE Goto(task, "scrape")

\* params.linkId given: reset it; otherwise SELECT the row of (userId, url)
Resolve(t) ==
  /\ t \in Running
  /\ tasks[t].at = "resolve"
  /\ IF tasks[t].linkId # 0
     THEN /\ links' = updateLink(links, tasks[t].linkId, ResetPending)
          /\ tasks' = [tasks EXCEPT ![t] = EnterScrape([@ EXCEPT !.lid = tasks[t].linkId])]
     ELSE /\ tasks' = [tasks EXCEPT ![t].found = getLinkByUrl(tasks[t].userId, tasks[t].url),
                                    ![t].at = "upsert"]
          /\ UNCHANGED links
  /\ UNCHANGED <<others, run, linkSeq, events, conns, rels, purl, faults>>

\* existing?.id: reset that row; otherwise insertLink
Upsert(t) ==
  /\ t \in Running
  /\ tasks[t].at = "upsert"
  /\ IF tasks[t].found # 0
     THEN /\ links' = updateLink(links, tasks[t].found, ResetPending)
          /\ tasks' = [tasks EXCEPT ![t] = EnterScrape([@ EXCEPT !.lid = tasks[t].found])]
          /\ UNCHANGED linkSeq
     ELSE /\ linkSeq < MaxLinks
          /\ links' = insertLink(tasks[t].userId, tasks[t].url)
          /\ linkSeq' = linkSeq + 1
          /\ tasks' = [tasks EXCEPT ![t] = EnterScrape([@ EXCEPT !.lid = linkSeq + 1])]
  /\ UNCHANGED <<others, run, events, conns, rels, purl, faults>>

AtStep(t, name) ==
  /\ t \in Running
  /\ tasks[t].at = name
  /\ tasks[t].ph = "run"

Ran(task) == [task EXCEPT !.ph = "cp", !.log = Append(@, task.at)]

\* err names the thrown message by the text it contains, len is its length in characters
Threw(task, err, len) ==
  IF task.kind = "process-link"
  THEN [task EXCEPT !.at = "catch", !.err = err, !.errLen = len]
  ELSE FailAttempt(task)

\* ctx.step('scrape') with params.scrapeData: the probe's fields are written to the link
ScrapeProbe(t) ==
  /\ AtStep(t, "scrape")
  /\ tasks[t].kind = "process-link"
  /\ tasks[t].scrapeData # NoData
  /\ links' = updateLink(links, tasks[t].lid,
                [og_title |-> "T", markdown |-> "md", status |-> "scraped"])
  /\ tasks' = [tasks EXCEPT ![t] = [Ran(@) EXCEPT !.row = tasks[t].lid]]
  /\ UNCHANGED <<others, run, linkSeq, events, conns, rels, purl, faults>>

ProbeRequired(t) ==
  /\ t \in Running
  /\ tasks[t].kind = "process-link"
  /\ tasks[t].scrapeData = NoData
  /\ isTwitterUrl(tasks[t].url)

\* Twitter URL without probe data: createProbeEvent
TwCreate(t) ==
  /\ ProbeRequired(t)
  /\ tasks[t].at = "scrape"
  /\ Len(events) < MaxEvents
  /\ events' = createProbeEvent(tasks[t].userId, tasks[t].lid, tasks[t].url, "twitter")
  /\ tasks' = [tasks EXCEPT ![t].at = "tw_update", ![t].evs = @ \cup {Len(events) + 1}]
  /\ UNCHANGED <<others, run, links, linkSeq, conns, rels, purl, faults>>

\* the branch without its updateLink(linkId, { status: 'waiting_probe' })
TwPush_NoStatus(t) ==
  /\ ProbeRequired(t)
  /\ tasks[t].at = "tw_update"
  /\ LET e == CHOOSE x \in tasks[t].evs : \A y \in tasks[t].evs : y <= x IN
     /\ conns' = pushEventToProbe(conns, tasks[t].userId, e)
     /\ events' = [events EXCEPT ![e].delivered = @ \/ (probeConnections(tasks[t].userId) # {})]
  /\ tasks' = [tasks EXCEPT ![t].at = "return", ![t].result = "waiting_probe"]
  /\ UNCHANGED <<others, run, links, linkSeq, rels, purl, faults>>

\* updateLink(linkId, { status: 'waiting_probe' }), pushEventToProbe(...) and
\* return { status: 'waiting_probe' }
TwPush(t) ==
  /\ ProbeRequired(t)
  /\ tasks[t].at = "tw_update"
  /\ links' = updateLink(links, tasks[t].lid, [status |-> "waiting_probe"])
  /\ LET e == CHOOSE x \in tasks[t].evs : \A y \in tasks[t].evs : y <= x IN
     /\ conns' = pushEventToProbe(conns, tasks[t].userId, e)
     /\ events' = [events EXCEPT ![e].delivered = @ \/ (probeConnections(tasks[t].userId) # {})]
  /\ tasks' = [tasks EXCEPT ![t].at = "return", ![t].result = "waiting_probe"]
  /\ UNCHANGED <<others, run, linkSeq, rels, purl, faults>>

\* scrapeStep that does not store the markdown
scrapeStep_NoMarkdown(t) ==
  /\ AtStep(t, "scrape")
  /\ tasks[t].kind = "process-link"
  /\ tasks[t].scrapeData = NoData
  /\ ~isTwitterUrl(tasks[t].url)
  /\ links' = updateLink(links, tasks[t].lid, [og_title |-> "T", status |-> "scraped"])
  /\ tasks' = [tasks EXCEPT ![t] = [Ran(@) EXCEPT !.cloud = @ + 1, !.row = tasks[t].lid]]
  /\ UNCHANGED <<others, run, linkSeq, events, conns, rels, purl, faults>>

\* scrapeStep: scrapeUrl succeeded, its fields are written with status scraped
scrapeStep(t) ==
  /\ AtStep(t, "scrape")
  /\ tasks[t].kind = "process-link"
  /\ tasks[t].scrapeData = NoData
  /\ ~isTwitterUrl(tasks[t].url)
  /\ links' = updateLink(links, tasks[t].lid,
                [og_title |-> "T", markdown |-> "md", status |-> "scraped"])
  /\ tasks' = [tasks EXCEPT ![t] = [Ran(@) EXCEPT !.cloud = @ + 1, !.row = tasks[t].lid]]
  /\ UNCHANGED <<others, run, linkSeq, events, conns, rels, purl, faults>>

\* summarizeStep: throws without markdown, else writes summary and tags
summarizeStep(t) ==
  /\ AtStep(t, "summarize")
  /\ LET link == getLink(tasks[t].lid) IN
     IF link = NoLink \/ link.markdown = Null
     THEN /\ tasks' = [tasks EXCEPT ![t] = Threw(@, "Link markdown not found after scrape", 36)]
          /\ UNCHANGED links
     ELSE /\ links' = updateLink(links, tasks[t].lid, [summary |-> "S", tags |-> "[t]"])
          /\ tasks' = [tasks EXCEPT ![t] = Ran(@)]
  /\ UNCHANGED <<others, run, linkSeq, events, conns, rels, purl, faults>>

\* embedStep: throws without summary, else writes the vector
embedStep(t) ==
  /\ AtStep(t, "embed")
  /\ LET link == getLink(tasks[t].lid) IN
     IF link = NoLink \/ link.summary = Null
     THEN /\ tasks' = [tasks EXCEPT ![t] = Threw(@, "Link summary not found for embedding", 36)]
          /\ UNCHANGED links
     ELSE /\ links' = updateLink(links, tasks[t].lid, [summary_embedding |-> "vec"])
          /\ tasks' = [tasks EXCEPT ![t] = Ran(@)]
  /\ UNCHANGED <<others, run, linkSeq, events, conns, rels, purl, faults>>

\* the search without its user_id filter
Candidates_AnyUser(userId, linkId) ==
  {i \in LinkIds : /\ links[i].status = "analyzed"
                   /\ i # linkId
                   /\ links[i].summary_embedding # Null}

\* the rows searchRelatedLinks can return for linkId
Candidates(userId, linkId) ==
  {i \in LinkIds : /\ links[i].user_id = userId
                   /\ links[i].status = "analyzed"
                   /\ i # linkId
                   /\ links[i].summary_embedding # Null}

\* the insert without the delete of the link's existing rows
saveRelatedLinks_NoDelete(linkId, relations) ==
  rels \cup {[link_id |-> linkId, related_link_id |-> x.id, score |-> x.score] : x \in relations}

\* Delete existing relations for this link, insert the new ones
saveRelatedLinks(linkId, relations) ==
  {r \in rels : r.link_id # linkId}
    \cup {[link_id |-> linkId, related_link_id |-> x.id, score |-> x.score] : x \in relations}

Range(seq) == {seq[k] : k \in 1..Len(seq)}

\* the rows of link_relations whose link_id is linkId
Outgoing(rs, linkId) == {r \in rs : r.link_id = linkId}

NewRows(linkId, relations) ==
  {[link_id |-> linkId, related_link_id |-> x.id, score |-> x.score] : x \in relations}

\* UNIQUE(link_id, related_link_id): the INSERT fails as a whole when a row of a pair exists
Conflicts(rs, rows) ==
  \E r \in rs, n \in rows : r.link_id = n.link_id /\ r.related_link_id = n.related_link_id

\* saveRelatedLinks, first statement: DELETE FROM link_relations WHERE link_id = linkId;
\* without relations the call is over
SaveDelete(c, linkId, relations) ==
  /\ saving[c] = NoCall
  /\ rels' = rels \ Outgoing(rels, linkId)
  /\ saving' = [saving EXCEPT ![c] =
       [pc |-> IF relations = {} THEN "done" ELSE "insert", linkId |-> linkId,
        relations |-> relations, old |-> Outgoing(rels, linkId)]]
  /\ UNCHANGED <<run, links, linkSeq, tasks, events, conns, purl, faults,
                 authReqs, devices, authz, resp, now, daemon, probe>>

\* saveRelatedLinks, second statement: INSERT INTO link_relations VALUES ...
SaveInsert(c) ==
  /\ saving[c] # NoCall
  /\ saving[c].pc = "insert"
  /\ LET rows == NewRows(saving[c].linkId, saving[c].relations) IN
     IF Conflicts(rels, rows)
     THEN /\ saving' = [saving EXCEPT ![c].pc = "failed"]
          /\ UNCHANGED rels
     ELSE /\ saving' = [saving EXCEPT ![c].pc = "done"]
          /\ rels' = rels \cup rows
  /\ UNCHANGED <<run, links, linkSeq, tasks, events, conns, purl, faults,
                 authReqs, devices, authz, resp, now, daemon, probe>>

Take(seq, n) == SubSeq(seq, 1, IF Len(seq) < n THEN Len(seq) ELSE n)

Reverse(seq) == [k \in 1..Len(seq) |-> seq[Len(seq) + 1 - k]]

RECURSIVE Ascending(_)
Ascending(S) ==
  IF S = {} THEN <<>>
  ELSE LET m == CHOOSE x \in S : \A y \in S : x <= y IN <<m>> \o Ascending(S \ {m})

\* searchRelatedLinks: the candidate rows ORDER BY distance LIMIT limit, each with its
\* score 1 / (1 + distance) rounded to two decimals, so the scores never increase along
\* the result; the ranking the vectors give is an input (here by id, upwards or
\* downwards); a failing query is caught and returns []
searchRelatedLinks(userId, excludeLinkId, limit) ==
  LET cand == Candidates(userId, excludeLinkId)
      n == IF Cardinality(cand) < limit THEN Cardinality(cand) ELSE limit
  IN {<<>>} \cup
     {[k \in 1..n |-> [id |-> order[k], score |-> sc[k]]] :
        order \in {Ascending(cand), Reverse(Ascending(cand))},
        sc \in {f \in [1..n -> ScoreValues] : \A k \in 1..(n - 1) : f[k] >= f[k + 1]}}

Passes(r) == r.score >= RELATED_SCORE_THRESHOLD

\* the slice without the threshold filter
relatedLinks_NoThreshold(searchResults) == Take(searchResults, RELATED_MAX_COUNT)

\* searchResults.filter((r) => r.score >= RELATED_SCORE_THRESHOLD).slice(0, RELATED_MAX_COUNT)
relatedLinks(searchResults) == Take(SelectSeq(searchResults, Passes), RELATED_MAX_COUNT)

\* updateLink(linkId, { related_links: JSON.stringify(relatedLinks) }): the cached list
\* holds the objects {id, score}; `searched` records the search results it came from
cacheRelatedLinks(ls, linkId, searchResults) ==
  IF linkId \in DOMAIN ls /\ ls[linkId] # NoLink
  THEN [ls EXCEPT ![linkId].related_links = relatedLinks(searchResults),
                  ![linkId].searched = searchResults]
  ELSE ls

\* link_id INTEGER NOT NULL REFERENCES links(id): the INSERT of saveRelatedLinks fails
\* when the link of the task was deleted (the candidates exist, they were just selected)
violatesForeignKey(linkId, relations) == relations # {} /\ getLink(linkId) = NoLink

\* relatedStep: search, keep score >= threshold, take the first five, save and cache
relatedStep(t) ==
  /\ AtStep(t, "related")
  /\ LET userId == IF tasks[t].kind = "process-link"
                   THEN tasks[t].userId ELSE getLink(tasks[t].lid).user_id
     IN \E searchResults \in searchRelatedLinks(userId, tasks[t].lid, SEARCH_LIMIT) :
          IF violatesForeignKey(tasks[t].lid, Range(relatedLinks(searchResults)))
          THEN /\ tasks' = [tasks EXCEPT ![t] =
                    Threw(@, "violates foreign key constraint", 90)]
               /\ UNCHANGED <<rels, links>>
          ELSE /\ rels' = saveRelatedLinks(tasks[t].lid, Range(relatedLinks(searchResults)))
               /\ links' = cacheRelatedLinks(links, tasks[t].lid, searchResults)
               /\ tasks' = [tasks EXCEPT ![t] = Ran(@)]
  /\ UNCHANGED <<others, run, linkSeq, events, conns, purl, faults>>

\* insightStep writing the scrape step's status
insightStep_WrongStatus(t) ==
  /\ AtStep(t, "insight")
  /\ links' = updateLink(links, tasks[t].lid, [insight |-> "I", status |-> "scraped"])
  /\ tasks' = [tasks EXCEPT ![t] = Ran(@)]
  /\ UNCHANGED <<others, run, linkSeq, events, conns, rels, purl, faults>>

\* insightStep: writes the insight and status analyzed
insightStep(t) ==
  /\ AtStep(t, "insight")
  /\ links' = updateLink(links, tasks[t].lid, [insight |-> "I", status |-> "analyzed"])
  /\ tasks' = [tasks EXCEPT ![t] = Ran(@)]
  /\ UNCHANGED <<others, run, linkSeq, events, conns, rels, purl, faults>>

\* exportStep: file export is disabled
exportStep(t) ==
  /\ AtStep(t, "export")
  /\ tasks' = [tasks EXCEPT ![t] = Ran(@)]
  /\ UNCHANGED <<others, run, links, linkSeq, events, conns, rels, purl, faults>>

\* the texts the catch looks for in the message; the browser raises them while scraping
permanentErrors ==
  {"Download is starting", "net::ERR_ABORTED", "Navigation failed because page was closed"}

isPermanent_Never(errorMessage) == FALSE

\* permanentErrors.some(pe => errorMessage.includes(pe))
isPermanent(errorMessage) == errorMessage \in permanentErrors

\* a collaborator (scraper, LLM, embedder, store) fails inside a step body
StepFail(t, err, len) ==
  /\ t \in Running
  /\ tasks[t].at \in StepSet
  /\ tasks[t].ph = "run"
  /\ ~(ProbeRequired(t) /\ tasks[t].at = "scrape")
  /\ isPermanent(err) => (tasks[t].at = "scrape" /\ tasks[t].scrapeData = NoData)
  /\ faults < run.faults
  /\ faults' = faults + 1
  /\ tasks' = [tasks EXCEPT ![t] = Threw(@, err, len)]
  /\ UNCHANGED <<others, run, links, linkSeq, events, conns, rels, purl>>

\* catch (err): status error with the message; permanent errors return, others re-throw
\* errorMessage.slice(0, 1000) of a message of len characters
slice_Whole(len) == len

slice(len) == IF len < ERROR_MESSAGE_MAX THEN len ELSE ERROR_MESSAGE_MAX

Catch(t) ==
  /\ t \in Running
  /\ tasks[t].at = "catch"
  /\ links' = messageLength(
                updateLink(links, tasks[t].lid, [status |-> "error", error_message |-> "err"]),
                tasks[t].lid, slice(tasks[t].errLen))
  /\ tasks' = [tasks EXCEPT ![t] =
       IF isPermanent(tasks[t].err)
       THEN [@ EXCEPT !.at = "return", !.result = "error"]
       ELSE FailAttempt(@)]
  /\ UNCHANGED <<others, run, linkSeq, events, conns, rels, purl, faults>>

(* ---------------------------------------------------------------- *)
(* refresh-related handler                                           *)
(* ---------------------------------------------------------------- *)
\* getLink; throws when the link or its summary is missing; embeds only without a stored vector
RrRead(t) ==
  /\ t \in Running
  /\ tasks[t].at = "rr_read"
  /\ LET link == getLink(tasks[t].linkId) IN
     tasks' = [tasks EXCEPT ![t] =
       IF link = NoLink \/ link.summary = Null
       THEN FailAttempt(@)
       ELSE Goto([@ EXCEPT !.lid = tasks[t].linkId],
                 IF link.summary_embedding # Null THEN "related" ELSE "embed")]
  /\ UNCHANGED <<others, run, links, linkSeq, events, conns, rels, purl, faults>>

(* ---------------------------------------------------------------- *)
(* Relations: the read path, deletion, the refresh utility           *)
(* ---------------------------------------------------------------- *)
\* the rows of one query in the order the database returns them (by id, upwards or
\* downwards: the queries have no ORDER BY)
RowsInOrder(S, rev) ==
  LET ids == Ascending({r.other_id : r \in S})
      asc == [k \in 1..Len(ids) |-> CHOOSE r \in S : r.other_id = ids[k]]
  IN IF rev THEN Reverse(asc) ELSE asc

\* scoreMap.set for every row
MapSet_Overwrite(map, row) ==
  IF \E k \in 1..Len(map) : map[k].relatedLinkId = row.other_id
  THEN [k \in 1..Len(map) |->
          IF map[k].relatedLinkId = row.other_id
          THEN [map[k] EXCEPT !.score = row.score]
          ELSE map[k]]
  ELSE Append(map, [relatedLinkId |-> row.other_id, score |-> row.score])

\* if (!existing || row.score > existing) scoreMap.set(otherId, row.score): a Map keeps
\* the position of a key that is set again
MapSet(map, row) ==
  IF \E k \in 1..Len(map) : map[k].relatedLinkId = row.other_id
  THEN [k \in 1..Len(map) |->
          IF map[k].relatedLinkId = row.other_id /\ (map[k].score = 0 \/ row.score > map[k].score)
          THEN [map[k] EXCEPT !.score = row.score]
          ELSE map[k]]
  ELSE Append(map, [relatedLinkId |-> row.other_id, score |-> row.score])

RECURSIVE ScoreMap(_, _)
ScoreMap(rows, map) ==
  IF rows = <<>> THEN map ELSE ScoreMap(Tail(rows), MapSet(map, Head(rows)))

\* Array.prototype.sort((a, b) => b.score - a.score): stable
RECURSIVE SortByScoreDesc(_)
SortByScoreDesc(seq) ==
  IF seq = <<>> THEN <<>>
  ELSE LET k == CHOOSE i \in 1..Len(seq) :
                  /\ \A j \in 1..Len(seq) : seq[j].score <= seq[i].score
                  /\ \A j \in 1..(i - 1) : seq[j].score < seq[i].score
       IN <<seq[k]>> \o SortByScoreDesc(SubSeq(seq, 1, k - 1) \o SubSeq(seq, k + 1, Len(seq)))

\* the read path without the incoming query
getRelatedLinks_OutgoingOnly(linkId, outRev, inRev) ==
  LET outgoing == RowsInOrder({[other_id |-> r.related_link_id, score |-> r.score] :
                                 r \in {x \in rels : x.link_id = linkId}}, outRev)
  IN Take(SortByScoreDesc(ScoreMap(outgoing, <<>>)), GET_RELATED_MAX)

\* getRelatedLinks: outgoing rows, then incoming rows, one entry per other id with the
\* highest score, sorted by score descending, the first five
getRelatedLinks(linkId, outRev, inRev) ==
  LET outgoing == RowsInOrder({[other_id |-> r.related_link_id, score |-> r.score] :
                                 r \in {x \in rels : x.link_id = linkId}}, outRev)
      incoming == RowsInOrder({[other_id |-> r.link_id, score |-> r.score] :
                                 r \in {x \in rels : x.related_link_id = linkId}}, inRev)
  IN Take(SortByScoreDesc(ScoreMap(outgoing \o incoming, <<>>)), GET_RELATED_MAX)

\* a JSON number, as opposed to the objects {id, score} of the cached list
JsonNumber(n) == [num |-> n]

\* related.filter((id) => id !== deletedLinkId) on the cached list of every analyzed link
filterRelated(link, deletedLinkId) ==
  LET Keep(x) == x # JsonNumber(deletedLinkId) IN SelectSeq(link.related_links, Keep)

removeFromRelatedLinks(ls, deletedLinkId) ==
  [i \in DOMAIN ls |->
     IF ls[i] # NoLink /\ ls[i].status = "analyzed"
     THEN [ls[i] EXCEPT !.related_links = filterRelated(ls[i], deletedLinkId)]
     ELSE ls[i]]

\* the number it returns: the links whose list became shorter
relatedLinksUpdated(ls, deletedLinkId) ==
  Cardinality({i \in DOMAIN ls :
                 /\ ls[i] # NoLink
                 /\ ls[i].status = "analyzed"
                 /\ Len(filterRelated(ls[i], deletedLinkId)) # Len(ls[i].related_links)})

deleteLink(ls, id) == [ls EXCEPT ![id] = NoLink]

\* a cascade on the link_id reference only
onDeleteCascade_OutgoingOnly(rs, id) == {r \in rs : r.link_id # id}

\* link_relations: both references to links(id) are ON DELETE CASCADE
onDeleteCascade(rs, id) == {r \in rs : r.link_id # id /\ r.related_link_id # id}

\* probe_events.link_id REFERENCES links(id) with no ON DELETE action, and no statement
\* deletes a probe event: the DELETE of a link that an event references is refused
referencedByProbeEvent(id) == \E e \in EventIds : events[e].link_id = id

\* DELETE /api/links/:id -> deleteLinkFull: removeFromRelatedLinks, then deleteLink;
\* the two statements are not in a transaction, and a refused DELETE throws out of the
\* route after the cached lists were scrubbed
deleteLinkFull(u, id) ==
  /\ id \in LinkIds
  /\ links[id].user_id = u
  /\ linkSeq - Cardinality(LinkIds) < MaxDeletes
  /\ IF referencedByProbeEvent(id)
     THEN /\ links' = removeFromRelatedLinks(links, id)
          /\ rels' = rels
     ELSE /\ links' = deleteLink(removeFromRelatedLinks(links, id), id)
          /\ rels' = onDeleteCascade(rels, id)
  /\ resp' = [op |-> "delete", n |-> resp.n, id |-> id, threw |-> referencedByProbeEvent(id)]
  /\ UNCHANGED <<run, linkSeq, tasks, events, conns, purl, faults,
                 authReqs, devices, authz, now, saving, daemon, probe>>

\* refreshRelated(linkId): relatedStep, then insightStep, for a link that has a summary
\* and a stored vector
refreshRelated(id) ==
  /\ id \in LinkIds
  /\ links[id].summary # Null
  /\ links[id].summary_embedding # Null
  /\ \E searchResults \in searchRelatedLinks(links[id].user_id, id, SEARCH_LIMIT) :
       /\ rels' = saveRelatedLinks(id, Range(relatedLinks(searchResults)))
       /\ links' = updateLink(cacheRelatedLinks(links, id, searchResults), id,
                              [insight |-> "I", status |-> "analyzed"])
  /\ UNCHANGED <<others, run, linkSeq, tasks, events, conns, purl, faults>>

(* ---------------------------------------------------------------- *)
(* Device authorization: /api/auth/device, /api/auth/token and       *)
(* /auth/device/authorize; time in ticks, a request lives            *)
(* ExpiryTicks of them (15 minutes)                                  *)
(* ---------------------------------------------------------------- *)
\* createDeviceAuthRequest: the codes are random, so they are new; user_id null is 0
createDeviceAuthRequest(deviceCode, userCode, expiresAt) ==
  Append(authReqs, [device_code |-> deviceCode, user_code |-> userCode, user_id |-> 0,
                    status |-> "pending", expires_at |-> expiresAt])

getDeviceAuthRequest(deviceCode) ==
  IF deviceCode \in DOMAIN authReqs THEN authReqs[deviceCode] ELSE NoAuthReq

\* the first row with that user_code whose status is pending
getDeviceAuthRequestByUserCode(userCode) ==
  LET hits == {d \in DOMAIN authReqs :
                 authReqs[d].user_code = userCode /\ authReqs[d].status = "pending"} IN
  IF hits = {} THEN NoAuthReq ELSE authReqs[CHOOSE d \in hits : \A e \in hits : d <= e]

\* UPDATE device_auth_requests SET status, user_id WHERE device_code = deviceCode
authorizeDeviceAuthRequest(reqs, deviceCode, userId) ==
  [d \in DOMAIN reqs |->
     IF reqs[d].device_code = deviceCode
     THEN [reqs[d] EXCEPT !.status = "authorized", !.user_id = userId]
     ELSE reqs[d]]

createProbeDevice(id, userId, accessToken) ==
  Append(devices, [id |-> id, user_id |-> userId, access_token |-> accessToken,
                   name |-> Null, last_seen_at |-> Null])

\* new Date(authReq.expires_at) < new Date()
expired(authReq) == authReq.expires_at < now

\* POST /api/auth/device
RequestDeviceCode ==
  /\ Len(authReqs) < MaxAuthReqs
  /\ authReqs' = createDeviceAuthRequest(Len(authReqs) + 1, Len(authReqs) + 1, now + ExpiryTicks)
  /\ resp' = [op |-> "device", http |-> 200, device_code |-> Len(authReqs) + 1,
              user_code |-> Len(authReqs) + 1]
  /\ UNCHANGED <<run, links, linkSeq, tasks, events, conns, rels, purl, faults,
                 devices, authz, now, saving, daemon, probe>>

\* the outcome without the expiry test
tokenOutcome_NoExpiry(authReq) ==
  IF authReq = NoAuthReq THEN "invalid_device_code"
  ELSE IF authReq.status = "pending" THEN "authorization_pending"
  ELSE IF authReq.status = "authorized" /\ authReq.user_id # 0 THEN "ok"
  ELSE "unknown_status"

\* the branch POST /api/auth/token takes for the row it read
tokenOutcome(authReq) ==
  IF authReq = NoAuthReq THEN "invalid_device_code"
  ELSE IF expired(authReq) THEN "expired_token"
  ELSE IF authReq.status = "pending" THEN "authorization_pending"
  ELSE IF authReq.status = "authorized" /\ authReq.user_id # 0 THEN "ok"
  ELSE "unknown_status"

\* POST /api/auth/token: the token is 'lmp_' and 16 random bytes, which are new
PollDeviceToken(deviceCode) ==
  LET authReq == getDeviceAuthRequest(deviceCode)
      outcome == tokenOutcome(authReq)
      accessToken == [prefix |-> "lmp_", hex |-> Len(devices) + 1] IN
  /\ IF outcome = "ok"
     THEN /\ Len(devices) < MaxDevices
          /\ devices' = createProbeDevice(Len(devices) + 1, authReq.user_id, accessToken)
          /\ resp' = [op |-> "token", http |-> 200, device_code |-> deviceCode,
                      access_token |-> accessToken, user_id |-> authReq.user_id]
     ELSE /\ resp' = [op |-> "token", http |-> 400, device_code |-> deviceCode,
                      error |-> outcome]
          /\ UNCHANGED devices
  /\ UNCHANGED <<run, links, linkSeq, tasks, events, conns, rels, purl, faults,
                 authReqs, authz, now, saving, daemon, probe>>

\* POST /auth/device/authorize of the signed-in user u, up to the UPDATE
AuthorizeSelect(u, userCode) ==
  LET authReq == getDeviceAuthRequestByUserCode(userCode) IN
  /\ authz[u] = NoAuthz
  /\ IF authReq = NoAuthReq
     THEN /\ resp' = [op |-> "authorize", http |-> 404, user |-> u, user_code |-> userCode]
          /\ UNCHANGED authz
     ELSE IF expired(authReq)
     THEN /\ resp' = [op |-> "authorize", http |-> 400, user |-> u, user_code |-> userCode]
          /\ UNCHANGED authz
     ELSE /\ authz' = [authz EXCEPT ![u] = [device_code |-> authReq.device_code,
                                            user_code |-> userCode]]
          /\ UNCHANGED resp
  /\ UNCHANGED <<run, links, linkSeq, tasks, events, conns, rels, purl, faults,
                 authReqs, devices, now, saving, daemon, probe>>

\* ... its authorizeDeviceAuthRequest and the page it answers with
AuthorizeUpdate(u) ==
  /\ authz[u] # NoAuthz
  /\ authReqs' = authorizeDeviceAuthRequest(authReqs, authz[u].device_code, u)
  /\ authz' = [authz EXCEPT ![u] = NoAuthz]
  /\ resp' = [op |-> "authorize", http |-> 200, user |-> u, user_code |-> authz[u].user_code]
  /\ UNCHANGED <<run, links, linkSeq, tasks, events, conns, rels, purl, faults,
                 devices, now, saving, daemon, probe>>

\* time passes
Tick ==
  /\ now < MaxTime
  /\ now' = now + 1
  /\ UNCHANGED <<run, links, linkSeq, tasks, events, conns, rels, purl, faults,
                 authReqs, devices, authz, resp, saving, daemon, probe>>

(* ---------------------------------------------------------------- *)
(* Probe daemon: eventLoop with its reconnect backoff and heartbeat  *)
(* check. Times are in ms; sinceEvent is Date.now() - lastEventTime, *)
(* toCheck and toPing the time left until the daemon's next heartbeat*)
(* check and the server's next ping; waits counts the waits since    *)
(* the start or the last successful connect                          *)
(* ---------------------------------------------------------------- *)
\* the doubling without its cap
nextBackoff_NoCap(backoff) == backoff * 2

\* Math.min(backoff * 2, maxBackoff)
nextBackoff(backoff) == IF backoff * 2 < maxBackoff THEN backoff * 2 ELSE maxBackoff

\* the test against the server's ping interval
heartbeatExpired_AtPing(sinceEvent, late) == sinceEvent + (IF late THEN 1 ELSE 0) > PING_INTERVAL

\* Date.now() - lastEventTime > HEARTBEAT_TIMEOUT, in a check that runs on time or late
heartbeatExpired(sinceEvent, late) == sinceEvent + (IF late THEN 1 ELSE 0) > HEARTBEAT_TIMEOUT

\* the loop leaves its try block: setTimeout(resolve, backoff)
Reconnecting(d) ==
  [d EXCEPT !.state = "waiting", !.wait = d.backoff, !.lastWait = d.backoff,
            !.waits = d.waits + 1]

\* fetch answers 200: backoff = 5000, lastEventTime = Date.now(), setInterval(.., 10000);
\* the server starts its ping interval; pinged tells whether its pings reach the daemon
ConnectOk(pinged) ==
  /\ daemon.state = "connecting"
  /\ daemon' = [daemon EXCEPT !.state = "connected", !.backoff = initialBackoff,
                              !.sinceEvent = 0, !.toCheck = HEARTBEAT_CHECK,
                              !.toPing = PING_INTERVAL, !.pinged = pinged,
                              !.waits = 0, !.cancelled = FALSE]
  /\ UNCHANGED <<run, links, linkSeq, tasks, events, conns, rels, purl, faults,
                 authReqs, devices, authz, resp, now, saving, probe>>

\* fetch throws or answers !resp.ok
ConnectFail ==
  /\ daemon.state = "connecting"
  /\ daemon.waits < MaxFailures
  /\ daemon' = Reconnecting(daemon)
  /\ UNCHANGED <<run, links, linkSeq, tasks, events, conns, rels, purl, faults,
                 authReqs, devices, authz, resp, now, saving, probe>>

\* the wait is over: backoff = Math.min(backoff * 2, maxBackoff), next turn of the loop
WaitOver ==
  /\ daemon.state = "waiting"
  /\ daemon.wait = 0
  /\ daemon' = [daemon EXCEPT !.state = "connecting", !.backoff = nextBackoff(daemon.backoff)]
  /\ UNCHANGED <<run, links, linkSeq, tasks, events, conns, rels, purl, faults,
                 authReqs, devices, authz, resp, now, saving, probe>>

\* d milliseconds pass, up to the next timer that is due
Advance(d) ==
  /\ CASE daemon.state = "waiting" ->
            /\ d <= daemon.wait
            /\ daemon' = [daemon EXCEPT !.wait = @ - d]
       [] daemon.state = "connected" ->
            /\ d <= daemon.toCheck
            /\ daemon.pinged => d <= daemon.toPing
            /\ daemon' = [daemon EXCEPT !.sinceEvent = @ + d, !.toCheck = @ - d,
                                        !.toPing = IF daemon.pinged THEN @ - d ELSE @]
       [] OTHER -> FALSE
  /\ UNCHANGED <<run, links, linkSeq, tasks, events, conns, rels, purl, faults,
                 authReqs, devices, authz, resp, now, saving, probe>>

\* readSSE's callback without its first statement
onEvent_NoReset(d, eventType) ==
  [d EXCEPT !.toPing = IF eventType = "ping" THEN PING_INTERVAL ELSE @,
            !.scraping = IF eventType = "scrape_request" THEN @ + 1 ELSE @]

\* readSSE's callback: lastEventTime = Date.now() for an event of any type; a
\* scrape_request calls processEvent without awaiting it, so the callback returns with
\* the scrape in flight
onEvent(d, eventType) ==
  [d EXCEPT !.sinceEvent = 0,
            !.toPing = IF eventType = "ping" THEN PING_INTERVAL ELSE @,
            !.scraping = IF eventType = "scrape_request" THEN @ + 1 ELSE @]

\* scrapes of this process that have not ended: processEvent calls before and in
\* uploadResult
InFlight(d) == d.scraping + d.uploading

\* the stream delivers an event to readSSE's callback
SseEvent(eventType) ==
  /\ daemon.state = "connected"
  /\ eventType = "ping" =>
        /\ daemon.pinged
        /\ daemon.toPing = 0
  /\ eventType = "scrape_request" => InFlight(daemon) < MaxScrapes
  /\ daemon' = onEvent(daemon, eventType)
  /\ UNCHANGED <<run, links, linkSeq, tasks, events, conns, rels, purl, faults,
                 authReqs, devices, authz, resp, now, saving, probe>>

\* the process of the loop has not exited
LoopAlive == daemon.state \notin {"off", "exited"}

\* processEvent: scrapeTwitter / scrapeWeb returns or throws; the catch builds the
\* failure payload, and uploadResult starts in both cases
ScrapeEnds(success) ==
  /\ LoopAlive
  /\ daemon.scraping > 0
  /\ daemon' = [daemon EXCEPT !.scraping = @ - 1, !.uploading = @ + 1,
                              !.failed = @ \/ ~success]
  /\ UNCHANGED <<run, links, linkSeq, tasks, events, conns, rels, purl, faults,
                 authReqs, devices, authz, resp, now, saving, probe>>

\* uploadResult: the POST answers (resp.ok or not, both logged) or fetch throws, and
\* the rejection of processEvent is logged by the .catch of the callback
UploadEnds(outcome) ==
  /\ LoopAlive
  /\ daemon.uploading > 0
  /\ daemon' = [daemon EXCEPT !.uploading = @ - 1, !.failed = @ \/ outcome # "ok"]
  /\ UNCHANGED <<run, links, linkSeq, tasks, events, conns, rels, purl, faults,
                 authReqs, devices, authz, resp, now, saving, probe>>

\* the setInterval callback: reader.cancel() ends readSSE and the loop goes to its wait
HeartbeatCheck(late) ==
  /\ daemon.state = "connected"
  /\ daemon.toCheck = 0
  /\ daemon' = IF heartbeatExpired(daemon.sinceEvent, late)
                THEN [Reconnecting(daemon) EXCEPT !.cancelled = TRUE]
                ELSE [daemon EXCEPT !.toCheck = HEARTBEAT_CHECK]
  /\ UNCHANGED <<run, links, linkSeq, tasks, events, conns, rels, purl, faults,
                 authReqs, devices, authz, resp, now, saving, probe>>

\* the stream ends or reader.read() throws
ConnectionLost ==
  /\ daemon.state = "connected"
  /\ daemon' = Reconnecting(daemon)
  /\ UNCHANGED <<run, links, linkSeq, tasks, events, conns, rels, purl, faults,
                 authReqs, devices, authz, resp, now, saving, probe>>

(* ---------------------------------------------------------------- *)
(* Probe CLI and the PID file. probe.pidFile is the content of       *)
(* probe.pid (0: no file); probe.procs the phase of every process    *)
(* that runs or ran runForeground: "spawned" (started, before        *)
(* writePid), "daemon" (PID written, handlers installed, in its      *)
(* event loop), "signalled" (a SIGTERM sent by stop is pending),     *)
(* "stopping" (cleanup ran, the loop is ending), "gone";             *)
(* probe.waiting the children whose parent `run` is in its 300 ms    *)
(* wait; probe.exit the last command that ended, its exit code and   *)
(* its message                                                       *)
(* ---------------------------------------------------------------- *)
\* fs.writeFileSync(PID_PATH, String(process.pid))
writePid(pr, p) == [pr EXCEPT !.pidFile = p]

\* if (fs.existsSync(PID_PATH)) fs.unlinkSync(PID_PATH)
removePid(pr) == [pr EXCEPT !.pidFile = 0]

\* null (0) without a file
readPid(pr) == pr.pidFile

\* process.kill(pid, sig) finds the process
Alive(pr, p) == pr.procs[p] \in {"spawned", "daemon", "signalled", "stopping"}

\* readPid, then process.kill(pid, 0); ESRCH removes the stale file
isRunning(pr) ==
  IF readPid(pr) = 0 THEN [running |-> FALSE, probe |-> pr]
  ELSE IF Alive(pr, readPid(pr)) THEN [running |-> TRUE, probe |-> pr]
  ELSE [running |-> FALSE, probe |-> removePid(pr)]

\* a SIGTERM reaches process p: a daemon's handler will run
Sigterm(pr, p) ==
  [pr EXCEPT !.procs[p] = IF @ = "daemon" THEN "signalled" ELSE @]

\* readPid, then process.kill(pid, 'SIGTERM'); ESRCH removes the stale file
stopDaemon(pr) ==
  IF readPid(pr) = 0 THEN [sent |-> FALSE, probe |-> pr]
  ELSE IF Alive(pr, readPid(pr)) THEN [sent |-> TRUE, probe |-> Sigterm(pr, readPid(pr))]
  ELSE [sent |-> FALSE, probe |-> removePid(pr)]

FreePids == {p \in Pids : probe.procs[p] = "none"}

\* a new process with the next PID
Spawn(pr, p) == [pr EXCEPT !.procs[p] = "spawned"]

\* `run [--foreground]`: not logged in exits 1; in background mode a running daemon
\* is reported and the action returns; --foreground goes on to runForeground in this
\* process; otherwise runDaemon spawns a detached `run --foreground` child and waits
RunCommand(foreground, authenticated) ==
  /\ FreePids # {}
  /\ LET p == CHOOSE q \in FreePids : \A r \in FreePids : q <= r
         chk == isRunning(probe) IN
     probe' =
       IF ~authenticated
       THEN [probe EXCEPT !.exit = [cmd |-> "run", code |-> 1, out |-> "Not logged in"]]
       ELSE IF foreground THEN Spawn(probe, p)
       ELSE IF chk.running
       THEN [chk.probe EXCEPT !.exit = [cmd |-> "run", code |-> 0,
                                       out |-> "Daemon already running"]]
       ELSE [Spawn(chk.probe, p) EXCEPT !.waiting = @ \cup {p}]
  /\ UNCHANGED <<run, links, linkSeq, tasks, events, conns, rels, purl, faults,
                 authReqs, devices, authz, resp, now, saving, daemon>>

\* runForeground in process p: writePid(), the SIGTERM and SIGINT handlers, eventLoop
runForeground(p) ==
  /\ probe.procs[p] = "spawned"
  /\ probe' = [writePid(probe, p) EXCEPT !.procs[p] = "daemon"]
  /\ UNCHANGED <<run, links, linkSeq, tasks, events, conns, rels, purl, faults,
                 authReqs, devices, authz, resp, now, saving, daemon>>

\* runDaemon's timer after 300 ms: child.exitCode !== null gives null and exit code 1
RunReport(p) ==
  /\ p \in probe.waiting
  /\ probe' = [probe EXCEPT
        !.waiting = @ \ {p},
        !.exit = IF probe.procs[p] = "gone"
                 THEN [cmd |-> "run", code |-> 1, out |-> "Daemon exited immediately"]
                 ELSE [cmd |-> "run", code |-> 0, out |-> "Daemon started"]]
  /\ UNCHANGED <<run, links, linkSeq, tasks, events, conns, rels, purl, faults,
                 authReqs, devices, authz, resp, now, saving, daemon>>

\* `stop`
StopCommand ==
  /\ LET chk == isRunning(probe)
         stop == stopDaemon(chk.probe) IN
     probe' =
       IF ~chk.running
       THEN [chk.probe EXCEPT !.exit = [cmd |-> "stop", code |-> 0,
                                       out |-> "Daemon is not running."]]
       ELSE [stop.probe EXCEPT !.exit = [cmd |-> "stop", code |-> 0,
                                        out |-> IF stop.sent THEN "Sent SIGTERM to daemon"
                                                ELSE "Failed to stop daemon."]]
  /\ UNCHANGED <<run, links, linkSeq, tasks, events, conns, rels, purl, faults,
                 authReqs, devices, authz, resp, now, saving, daemon>>

\* `status`
StatusCommand ==
  /\ LET chk == isRunning(probe) IN
     probe' = [chk.probe EXCEPT !.exit = [cmd |-> "status", code |-> 0,
                                         out |-> IF chk.running THEN "Running"
                                                 ELSE "Not running"]]
  /\ UNCHANGED <<run, links, linkSeq, tasks, events, conns, rels, purl, faults,
                 authReqs, devices, authz, resp, now, saving, daemon>>

\* the abort that does not reach a loop that waits for its reconnect timer
aborted_WaitGoesOn(d) ==
  IF d.state = "waiting" THEN [d EXCEPT !.abortedIn = d.state]
  ELSE [d EXCEPT !.abortedIn = d.state, !.state = "aborted", !.wait = 0]

\* the loop sees the abort: a pending fetch or reader.read() rejects and the catch
\* breaks, the wait's abort listener clears the timer and resolves; abortedIn keeps the
\* phase in which the signal found the loop
aborted(d) == [d EXCEPT !.abortedIn = d.state, !.state = "aborted", !.wait = 0]

\* the SIGTERM / SIGINT handler of process p (a signal sent by stop, or one from the
\* terminal or the system at any time): ac.abort(); removePid()
cleanup(p) ==
  /\ probe.procs[p] \in {"daemon", "signalled"}
  /\ probe' = [removePid(probe) EXCEPT !.procs[p] = "stopping"]
  /\ daemon' = IF daemon.pid = p THEN aborted(daemon) ELSE daemon
  /\ UNCHANGED <<run, links, linkSeq, tasks, events, conns, rels, purl, faults,
                 authReqs, devices, authz, resp, now, saving>>

\* eventLoop(...).then of process p: the while loop is over, process.exit(0); scrapes
\* in flight end with the process
LoopExit(p) ==
  /\ probe.procs[p] = "stopping"
  /\ probe' = [probe EXCEPT !.procs[p] = "gone"]
  /\ daemon' = IF daemon.pid = p
                THEN [daemon EXCEPT !.state = "exited", !.scraping = 0, !.uploading = 0]
                ELSE daemon
  /\ UNCHANGED <<run, links, linkSeq, tasks, events, conns, rels, purl, faults,
                 authReqs, devices, authz, resp, now, saving>>

\* process p ends without running a handler (SIGKILL, a crash, the machine stops)
Killed(p) ==
  /\ Alive(probe, p)
  /\ probe' = [probe EXCEPT !.procs[p] = "gone"]
  /\ daemon' = IF daemon.pid = p
                THEN [daemon EXCEPT !.state = "exited", !.scraping = 0, !.uploading = 0]
                ELSE daemon
  /\ UNCHANGED <<run, links, linkSeq, tasks, events, conns, rels, purl, faults,
                 authReqs, devices, authz, resp, now, saving>>

(* ---------------------------------------------------------------- *)
(* Specifications                                                    *)
(* ---------------------------------------------------------------- *)
Api ==
  \/ \E u \in Users, url \in run.urls : PostLinks(u, url)
  \/ \E u \in Users, url \in run.bot : ProcessUrlSelect(u, url)
  \/ ProcessUrlSpawn
  \/ \E id \in 1..MaxLinks : retryLink(id)
  \/ \E id \in 1..MaxLinks : spawnRefreshRelated(id)

Probe ==
  \/ \E u \in Users : Subscribe(u)
  \/ \E c \in 1..MaxConns : ReplayNext(c)
  \/ \E c \in 1..MaxConns : Close(c)
  \/ \E u \in Users, e \in 1..MaxEvents, success \in BOOLEAN, data \in {NoData, GoodData} :
       ReceiveResult(u, e, success, data)

\* what a worker does next for task t while nothing throws
Work(t) ==
  \/ Claim(t) \/ Checkpoint(t) \/ Complete(t)
  \/ Resolve(t) \/ Upsert(t)
  \/ ScrapeProbe(t) \/ TwCreate(t) \/ TwPush(t)
  \/ scrapeStep(t) \/ summarizeStep(t) \/ embedStep(t) \/ relatedStep(t)
  \/ insightStep(t) \/ exportStep(t)
  \/ RrRead(t)

Handler(t) == Work(t) \/ Catch(t)

Failure ==
  \/ \E t \in 1..MaxTasks : Crash(t)
  \/ \E t \in 1..MaxTasks, err \in run.errs, len \in run.msgs :
       StepFail(t, err, len)

Next == Api \/ Probe \/ (\E t \in 1..MaxTasks : Handler(t)) \/ Failure

Spec == Init /\ [][Next]_vars

\* the collaborators succeed and no worker dies; a worker that polls its queue gives
\* every claimed or queued task its next handler step
NextLive == Api \/ Probe \/ (\E t \in 1..MaxTasks : Work(t))

LiveSpec == Init /\ [][NextLive]_vars /\ \A t \in 1..MaxTasks : WF_vars(Work(t))

\* Retries: one submitted web URL whose steps may throw, or whose worker may die,
\* up to MaxRetryFaults times with messages below and above the 1000 characters kept;
\* the worker keeps polling, so a queued or claimed task gets its next handler step
\* (the retry delay elapses)
RetryRun ==
  [urls |-> {WebUrl}, bot |-> {}, conns |-> 0, faults |-> MaxRetryFaults, suspended |-> FALSE,
   msgs |-> {ERROR_MESSAGE_MAX - 1, ERROR_MESSAGE_MAX + 1},
   errs |-> {"Timeout"} \cup permanentErrors]

RetryInit ==
  /\ run = RetryRun
  /\ links = [i \in 1..MaxLinks |-> NoLink]
  /\ linkSeq = 0
  /\ tasks = <<NewTask("process-link", 1, WebUrl, 0, NoData)>>
  /\ events = <<>>
  /\ conns = [c \in 1..MaxConns |-> NoConn]
  /\ rels = {}
  /\ purl = [busy |-> FALSE, userId |-> 0, url |-> BadUrl, existing |-> 0]
  /\ faults = 0
  /\ OthersInit

RetryWork(t) ==
  \/ Claim(t) \/ Checkpoint(t) \/ Complete(t)
  \/ Resolve(t) \/ Upsert(t)
  \/ scrapeStep(t) \/ summarizeStep(t) \/ embedStep(t) \/ relatedStep(t)
  \/ insightStep(t) \/ exportStep(t)
  \/ Catch(t)

RetryNext ==
  \/ \E t \in 1..MaxTasks : RetryWork(t)
  \/ Failure

RetrySpec == RetryInit /\ [][RetryNext]_vars /\ \A t \in 1..MaxTasks : WF_vars(RetryWork(t))

\* Device authorization: probes ask for codes and poll for their token, signed-in
\* users submit user codes (also ones nobody issued), time passes
AuthCodes == 1..(MaxAuthReqs + 1)

AuthNext ==
  \/ RequestDeviceCode
  \/ \E deviceCode \in AuthCodes : PollDeviceToken(deviceCode)
  \/ \E u \in AuthUsers, userCode \in AuthCodes : AuthorizeSelect(u, userCode)
  \/ \E u \in AuthUsers : AuthorizeUpdate(u)
  \/ Tick

\* an empty store and nothing submitted to the pipeline
PipelineIdle ==
  /\ run = [urls |-> {}, bot |-> {}, conns |-> 0, faults |-> 0, suspended |-> FALSE,
            msgs |-> {}, errs |-> {}]
  /\ links = [i \in 1..MaxLinks |-> NoLink]
  /\ linkSeq = 0
  /\ tasks = <<>>
  /\ events = <<>>
  /\ conns = [c \in 1..MaxConns |-> NoConn]
  /\ rels = {}
  /\ purl = [busy |-> FALSE, userId |-> 0, url |-> BadUrl, existing |-> 0]
  /\ faults = 0

AuthInit == PipelineIdle /\ OthersInit

\* Probe daemon: connects that fail or succeed, connections with and without the
\* server's pings reaching the daemon, events at any time, connections that end
DaemonNext ==
  \/ \E pinged \in BOOLEAN : ConnectOk(pinged)
  \/ ConnectFail
  \/ WaitOver
  \/ \E d \in {initialBackoff, HEARTBEAT_CHECK} : Advance(d)
  \/ \E eventType \in {"ping", "scrape_request", "unknown"} : SseEvent(eventType)
  \/ \E late \in BOOLEAN : HeartbeatCheck(late)
  \/ ConnectionLost
  \/ \E success \in BOOLEAN : ScrapeEnds(success)
  \/ \E outcome \in {"ok", "rejected", "threw"} : UploadEnds(outcome)
  \/ cleanup(1)
  \/ LoopExit(1)

DaemonSpec == AuthInit /\ [][DaemonNext]_vars

\* the continuation of eventLoop's promise runs once the loop has left its while
DaemonLiveSpec == DaemonSpec /\ WF_vars(LoopExit(1))

AuthSpec == AuthInit /\ [][AuthNext]_vars

\* Probe CLI: no probe process exists and there is no PID file; users run the commands
\* in any order and at any time, signals arrive, processes die
LoopOff == [LoopStart(0) EXCEPT !.state = "off"]

CliInit ==
  /\ PipelineIdle
  /\ ServerIdle
  /\ daemon = LoopOff
  /\ probe = [pidFile |-> 0, procs |-> [p \in Pids |-> "none"], waiting |-> {},
              exit |-> NoExit]

CliNext ==
  \/ \E foreground \in BOOLEAN, authenticated \in BOOLEAN :
       RunCommand(foreground, authenticated)
  \/ \E p \in Pids : runForeground(p)
  \/ \E p \in Pids : RunReport(p)
  \/ StopCommand
  \/ StatusCommand
  \/ \E p \in Pids : cleanup(p)
  \/ \E p \in Pids : LoopExit(p)
  \/ \E p \in Pids : Killed(p)

CliSpec == CliInit /\ [][CliNext]_vars

\* Probe results: a tweet link waits for its probe event; devices of the link's user and
\* of another user subscribe and post results, failures with and without a message,
\* also for an event id that does not exist
Devices == 1..(NumUsers + 1)

ResultInit == Init /\ run.suspended

ResultNext ==
  \/ \E u \in Users : Subscribe(u)
  \/ \E c \in 1..MaxConns : ReplayNext(c)
  \/ \E c \in 1..MaxConns : Close(c)
  \/ \E u \in Devices, e \in 1..MaxEvents, success \in BOOLEAN, data \in {NoData, GoodData},
        error \in {Undef, "", "Login wall"} :
       PostReceiveResult(u, e, success, data, error)

ResultSpec == ResultInit /\ [][ResultNext]_vars

\* Subscriptions: two users, each with a device and with a tweet submitted, so that each
\* gets a probe event; probes subscribe with the token of either device or of none,
\* before and after the events are created; connections close
Token(n) == [prefix |-> "lmp_", hex |-> n]

SinkRun ==
  [urls |-> {TwUrl}, bot |-> {}, conns |-> MaxConns, faults |-> 0, suspended |-> FALSE,
   msgs |-> {}, errs |-> {}]

SinkInit ==
  /\ run = SinkRun
  /\ links = [i \in 1..MaxLinks |-> NoLink]
  /\ linkSeq = 0
  /\ tasks = [u \in 1..2 |-> NewTask("process-link", u, TwUrl, 0, NoData)]
  /\ events = <<>>
  /\ conns = [c \in 1..MaxConns |-> NoConn]
  /\ rels = {}
  /\ purl = [busy |-> FALSE, userId |-> 0, url |-> BadUrl, existing |-> 0]
  /\ faults = 0
  /\ authReqs = <<>>
  /\ devices = [d \in 1..2 |-> [id |-> d, user_id |-> d, access_token |-> Token(d),
                                 name |-> Null, last_seen_at |-> Null]]
  /\ authz = [u \in AuthUsers |-> NoAuthz]
  /\ resp = NoResp
  /\ now = 0
  /\ saving = [c \in 1..MaxSaves |-> NoCall]
  /\ daemon = LoopStart(1)
  /\ probe = [pidFile |-> 1, procs |-> [p \in Pids |-> IF p = 1 THEN "daemon" ELSE "none"],
              waiting |-> {}, exit |-> NoExit]

SinkWork(t) ==
  \/ Claim(t) \/ Complete(t)
  \/ Resolve(t) \/ Upsert(t)
  \/ TwCreate(t) \/ TwPush(t)

SinkNext ==
  \/ \E t \in 1..MaxTasks : SinkWork(t)
  \/ \E n \in 1..3 : SubscribeEvents(Token(n))
  \/ \E c \in 1..MaxConns : ReplayNext(c)
  \/ \E c \in 1..MaxConns : Close(c)

SinkSpec == SinkInit /\ [][SinkNext]_vars

\* Relations: a store of analyzed links of one user, each with its own URL, on which
\* the refresh utility runs for some links and links are deleted through the API
RelUrl(i) == [host |-> "example.com", path |-> << <<"p">>, <<ToString(i)>> >>]

AnalyzedLink(userId, url) ==
  [NewLink(userId, url) EXCEPT !.status = "analyzed", !.og_title = "T", !.markdown = "md",
                               !.summary = "S", !.tags = "[t]", !.summary_embedding = "vec",
                               !.insight = "I"]

RelRunners == {i \in 1..NumRelLinks : i = 1 \/ i > NumRelLinks - (NumRunners - 1)}

\* the links the API is asked to delete: the refreshed ones and one that is only a candidate
RelDeleted == RelRunners \cup {i \in 1..NumRelLinks : 1 < i /\ i <= NumRunners}

RelInit ==
  /\ run = [urls |-> {}, bot |-> {}, conns |-> 0, faults |-> 0, suspended |-> FALSE,
            msgs |-> {}, errs |-> {}]
  /\ links = [i \in 1..NumRelLinks |-> AnalyzedLink(1, RelUrl(i))]
  /\ linkSeq = NumRelLinks
  /\ tasks = <<>>
  /\ events = <<>>
  /\ conns = [c \in 1..MaxConns |-> NoConn]
  /\ rels = {}
  /\ purl = [busy |-> FALSE, userId |-> 0, url |-> BadUrl, existing |-> 0]
  /\ faults = 0
  /\ OthersInit

RelNext ==
  \/ \E id \in RelRunners : refreshRelated(id)
  \/ \E u \in Users, id \in RelDeleted : deleteLinkFull(u, id)

RelSpec == RelInit /\ [][RelNext]_vars

\* Owners: analyzed links of two users in turn; links are processed again through the
\* retry API, refreshed by the utility and deleted by their owners, in any order
Owner(i) == ((i - 1) % 2) + 1

OwnerInit ==
  /\ run = [urls |-> {}, bot |-> {}, conns |-> 0, faults |-> 0, suspended |-> FALSE,
            msgs |-> {}, errs |-> {}]
  /\ links = [i \in 1..NumOwnerLinks |-> AnalyzedLink(Owner(i), RelUrl(i))]
  /\ linkSeq = NumOwnerLinks
  /\ tasks = <<>>
  /\ events = <<>>
  /\ conns = [c \in 1..MaxConns |-> NoConn]
  /\ rels = {}
  /\ purl = [busy |-> FALSE, userId |-> 0, url |-> BadUrl, existing |-> 0]
  /\ faults = 0
  /\ OthersInit

OwnerWork(t) ==
  \/ Claim(t) \/ Checkpoint(t) \/ Complete(t)
  \/ Resolve(t)
  \/ scrapeStep(t) \/ summarizeStep(t) \/ embedStep(t) \/ relatedStep(t)
  \/ insightStep(t) \/ exportStep(t)
  \/ Catch(t)

\* link 1 (of user 1) is retried, link 2 (of user 2) is refreshed, any link is deleted
OwnerNext ==
  \/ retryLink(1)
  \/ \E t \in 1..MaxTasks : OwnerWork(t)
  \/ refreshRelated(2)
  \/ \E u \in 1..2, id \in 1..NumOwnerLinks : deleteLinkFull(u, id)

OwnerSpec == OwnerInit /\ [][OwnerNext]_vars

\* Deleting links: user 1 has a tweet link that waits for its probe event and a web link
\* that was analyzed; either is deleted while devices subscribe and post results
DeleteInit ==
  /\ run = [urls |-> {}, bot |-> {}, conns |-> MaxConns, faults |-> 0, suspended |-> TRUE,
            msgs |-> {}, errs |-> {}]
  /\ links = [i \in 1..MaxLinks |->
                IF i = 1 THEN [NewLink(1, TwUrl) EXCEPT !.status = "waiting_probe"]
                ELSE IF i = 2 THEN AnalyzedLink(1, WebUrl)
                ELSE NoLink]
  /\ linkSeq = 2
  /\ tasks = <<>>
  /\ events = <<[user_id |-> 1, link_id |-> 1, url |-> TwUrl, url_type |-> "twitter",
                 status |-> "pending", result |-> Null, error |-> Null,
                 created_at |-> 1, sent_at |-> Null, completed_at |-> Null,
                 delivered |-> FALSE]>>
  /\ conns = [c \in 1..MaxConns |-> NoConn]
  /\ rels = {}
  /\ purl = [busy |-> FALSE, userId |-> 0, url |-> BadUrl, existing |-> 0]
  /\ faults = 0
  /\ OthersInit

DeleteNext ==
  \/ \E u \in Users, id \in 1..MaxLinks : deleteLinkFull(u, id)
  \/ \E u \in Users : Subscribe(u)
  \/ \E c \in 1..MaxConns : ReplayNext(c)
  \/ \E c \in 1..MaxConns : Close(c)
  \/ \E u \in Devices, e \in 1..MaxEvents, success \in BOOLEAN, data \in {NoData, GoodData},
        error \in {Undef, "", "Login wall"} :
       PostReceiveResult(u, e, success, data, error)

DeleteSpec == DeleteInit /\ [][DeleteNext]_vars

\* Saving relations: analyzed links, link 1 with a stored relation; the related step of
\* MaxSaves tasks calls saveRelatedLinks for link 1 or 2 with relations to links 3 and 4
SaveLinks == {1, 2}

SaveRelations == SUBSET {[id |-> 3, score |-> 80], [id |-> 4, score |-> 80]}

SaveInit ==
  /\ run = [urls |-> {}, bot |-> {}, conns |-> 0, faults |-> 0, suspended |-> FALSE,
            msgs |-> {}, errs |-> {}]
  /\ links = [i \in 1..NumRelLinks |-> AnalyzedLink(1, RelUrl(i))]
  /\ linkSeq = NumRelLinks
  /\ tasks = <<>>
  /\ events = <<>>
  /\ conns = [c \in 1..MaxConns |-> NoConn]
  /\ rels = NewRows(1, {[id |-> 3, score |-> 65]})
  /\ purl = [busy |-> FALSE, userId |-> 0, url |-> BadUrl, existing |-> 0]
  /\ faults = 0
  /\ OthersInit

SaveNext ==
  \/ \E c \in 1..MaxSaves, linkId \in SaveLinks, relations \in SaveRelations :
       SaveDelete(c, linkId, relations)
  \/ \E c \in 1..MaxSaves : SaveInsert(c)

SaveSpec == SaveInit /\ [][SaveNext]_vars

(* ---------------------------------------------------------------- *)
(* Properties                                                        *)
(* ---------------------------------------------------------------- *)
Count(seq, x) == Cardinality({i \in 1..Len(seq) : seq[i] = x})

Analyzed(t) == t \in TaskIds /\ tasks[t].state = "completed" /\ tasks[t].result = "analyzed"

\* C1 as stated: in a process-link task that completed with result analyzed, every
\* step body has completed exactly once over all attempts
C1_EachStepExactlyOnce ==
  \A t \in TaskIds : Analyzed(t) => \A s \in StepSet : Count(tasks[t].log, s) = 1

\* C1 amended: every step of a task that completed analyzed has a checkpoint and its
\* body completed at least once, and the body of a step that has a checkpoint never
\* runs again in that task
C1_MemoizedNeverReruns ==
  /\ [](\A t \in TaskIds : Analyzed(t) =>
          \A s \in StepSet : s \in tasks[t].cps /\ Count(tasks[t].log, s) >= 1)
  /\ [][\A t \in TaskIds : \A s \in tasks[t].cps :
          Count(tasks'[t].log, s) = Count(tasks[t].log, s)]_vars

\* a task completed analyzed whose insight body returned twice (the attempt died before
\* the checkpoint was written) while the five other bodies, memoized, ran once
C1_Witness ==
  \E t \in TaskIds :
    Analyzed(t) /\ Count(tasks[t].log, "insight") = 2 /\ Len(tasks[t].log) = 7

StatusChange(i, from, to) ==
  /\ links[i] # NoLink
  /\ links'[i] # NoLink
  /\ links[i].status = from
  /\ links'[i].status = to

ClaimedEdges ==
  {<<"pending", "scraped">>, <<"pending", "waiting_probe">>, <<"pending", "error">>,
   <<"waiting_probe", "pending">>, <<"scraped", "analyzed">>, <<"analyzed", "pending">>,
   <<"error", "pending">>}

Statuses == {"pending", "scraped", "analyzed", "error", "waiting_probe"}

\* C2 as stated: every change of a link's status is one of the seven listed edges
C2_OnlyClaimedEdges ==
  [][\A i \in 1..MaxLinks : \A from, to \in Statuses :
       (from # to /\ StatusChange(i, from, to)) => <<from, to>> \in ClaimedEdges]_vars

\* the operation that writes status `to` on link i in this step
StatusWriter(i, to) ==
  \E t \in Running :
    CASE to = "pending" ->
           \/ tasks[t].at = "resolve" /\ tasks[t].linkId = i
           \/ tasks[t].at = "upsert" /\ tasks[t].found = i
      [] to = "scraped" -> tasks[t].at = "scrape" /\ tasks[t].lid = i /\ tasks'[t].ph = "cp"
      [] to = "waiting_probe" -> tasks[t].at = "tw_update" /\ tasks[t].lid = i
      [] to = "analyzed" -> tasks[t].at = "insight" /\ tasks[t].lid = i /\ tasks'[t].ph = "cp"
      [] to = "error" -> tasks[t].at = "catch" /\ tasks[t].lid = i

\* C2 amended: a link's status changes only to pending by a process-link attempt's link
\* resolution, to scraped by a scrape step body, to waiting_probe by the probe-required
\* branch, to analyzed by an insight step body and to error by the handler's catch,
\* whatever the status was before
C2_StatusWrittenByItsOwner ==
  [][\A i \in 1..MaxLinks : \A from, to \in Statuses :
       (from # to /\ StatusChange(i, from, to)) => StatusWriter(i, to)]_vars

\* a link that went from scraped or analyzed to error, an edge the list leaves out
C2_Witness ==
  \E i \in LinkIds : links[i].status = "error" /\ links[i].markdown # Null

\* C3: at most one link row per (user, url)
C3_OneRowPerUserUrl ==
  \A a, b \in LinkIds :
    (links[a].user_id = links[b].user_id /\ links[a].url = links[b].url) => a = b

\* C4: an analyzed link has a summary, tags and a summary vector
C4_AnalyzedHasSummaryTagsVector ==
  \A i \in LinkIds :
    links[i].status = "analyzed" =>
      /\ links[i].summary # Null
      /\ links[i].tags # Null
      /\ links[i].summary_embedding # Null

\* C8: an event that is no longer pending (so that no later subscription replays it)
\* has been written onto a live subscription of its user at least once
C8_AtLeastOnceDelivery ==
  \A e \in EventIds : events[e].status # "pending" => events[e].delivered

\* C10: a completed event carries a result payload and a completed timestamp
C10_CompletedHasResult ==
  \A e \in EventIds :
    events[e].status = "completed" =>
      events[e].result # Null /\ events[e].completed_at # Null

ProbeDataTask(t) == t \in TaskIds /\ tasks[t].kind = "process-link" /\ tasks[t].scrapeData # NoData

WebTask(t) ==
  /\ t \in TaskIds
  /\ tasks[t].kind = "process-link"
  /\ tasks[t].linkId = 0
  /\ tasks[t].scrapeData = NoData
  /\ ~isTwitterUrl(tasks[t].url)

AnalyzedRow(userId, url) ==
  \E i \in LinkIds :
    /\ links[i].user_id = userId
    /\ links[i].url = url
    /\ links[i].status = "analyzed"
    /\ links[i].og_title # Null
    /\ links[i].summary # Null
    /\ links[i].tags # Null
    /\ links[i].insight # Null

\* C5: a process-link task spawned without linkId for a non-Twitter URL eventually
\* completes having run scrape, summarize, embed, related, insight, export in this
\* order, and eventually the link of its URL is analyzed with title, summary, tags
\* and insight set
C5_WebUrlEventuallyAnalyzed ==
  \A t \in 1..MaxTasks :
    /\ WebTask(t) ~> (t \in TaskIds /\ tasks[t].state = "completed" /\ tasks[t].log = Steps)
    /\ WebTask(t) ~> (t \in TaskIds /\ AnalyzedRow(tasks[t].userId, tasks[t].url))

\* a web task completed with all six steps run and its link analyzed
C5_Witness ==
  \E t \in TaskIds :
    /\ WebTask(t)
    /\ tasks[t].state = "completed"
    /\ tasks[t].log = Steps
    /\ AnalyzedRow(tasks[t].userId, tasks[t].url)

LastOf(S) == CHOOSE x \in S : \A y \in S : y <= x

\* C6: a process-link attempt for a Twitter URL without scrapeData creates a pending
\* event for its link and user, then sets the link waiting_probe, writes the
\* scrape_request onto every open subscription of the user and returns waiting_probe;
\* a task that returned waiting_probe has run no step body and has no checkpoint
C6_TwitterSuspendsOnProbe ==
  /\ [][\A t \in TaskIds :
          (tasks[t].at = "scrape" /\ tasks'[t].at = "tw_update") =>
            /\ Len(events') = Len(events) + 1
            /\ events'[Len(events')].status = "pending"
            /\ events'[Len(events')].link_id = tasks[t].lid
            /\ events'[Len(events')].user_id = tasks[t].userId
            /\ events'[Len(events')].url = tasks[t].url]_vars
  /\ [][\A t \in TaskIds :
          (tasks[t].at = "tw_update" /\ tasks'[t].at = "return") =>
            /\ links'[tasks[t].lid].status = "waiting_probe"
            /\ tasks'[t].result = "waiting_probe"
            /\ \A c \in probeConnections(tasks[t].userId) :
                 LastOf(tasks[t].evs) \in conns'[c].got]_vars
  /\ [](\A t \in TaskIds :
          tasks[t].result = "waiting_probe" =>
            /\ isTwitterUrl(tasks[t].url)
            /\ tasks[t].scrapeData = NoData
            /\ tasks[t].log = <<>>
            /\ tasks[t].cps = {}
            /\ tasks[t].cloud = 0
            /\ tasks[t].evs # {})

\* a Twitter task completed with waiting_probe after its request reached a subscription
C6_Witness ==
  \E t \in TaskIds :
    /\ tasks[t].state = "completed"
    /\ tasks[t].result = "waiting_probe"
    /\ \E c \in ConnIds : conns[c].got \cap tasks[t].evs # {}
    /\ \E i \in LinkIds : links[i].status = "waiting_probe"

\* C7: a successful result that stores its payload on the event spawns a process-link task with that
\* payload for the event's link; such a task creates no event and never calls the cloud
\* scraper, and once it is queued its link eventually is analyzed
C7_ProbeResultResumes ==
  /\ [][\A e \in EventIds :
          (events[e].result = Null /\ events'[e].result # Null /\ events'[e].status = "completed") =>
            /\ Len(tasks') = Len(tasks) + 1
            /\ tasks'[Len(tasks')].kind = "process-link"
            /\ tasks'[Len(tasks')].linkId = events[e].link_id
            /\ tasks'[Len(tasks')].scrapeData = events'[e].result]_vars
  /\ [](\A t \in TaskIds : ProbeDataTask(t) => tasks[t].evs = {} /\ tasks[t].cloud = 0)
  /\ \A t \in 1..MaxTasks :
       (ProbeDataTask(t) /\ tasks[t].state = "queued") ~> (/\ t \in TaskIds
                            /\ tasks[t].linkId \in LinkIds
                            /\ links[tasks[t].linkId].status = "analyzed"
                            /\ links[tasks[t].linkId].summary # Null)

\* the task spawned by a probe result completed with its link analyzed
C7_Witness ==
  \E t \in TaskIds :
    /\ ProbeDataTask(t)
    /\ tasks[t].state = "completed"
    /\ tasks[t].result = "analyzed"
    /\ links[tasks[t].linkId].status = "analyzed"
    /\ \E e \in EventIds : events[e].link_id = tasks[t].linkId /\ events[e].status = "completed"

IsSortedByCreated(seq) ==
  \A a, b \in 1..Len(seq) : a < b => events[seq[a]].created_at < events[seq[b]].created_at

\* C9: a subscription whose replay has finished was sent exactly the events of its user
\* that were pending when it subscribed, in creation order, and each of them was marked
\* sent; every replay turn leaves its event in status sent
C9_ReplayPendingInOrder ==
  /\ [](\A c \in ConnIds :
          (conns[c].open /\ conns[c].replay = <<>>) =>
            /\ {conns[c].written[k] : k \in 1..Len(conns[c].written)} = conns[c].pendingAtSub
            /\ Len(conns[c].written) = Cardinality(conns[c].pendingAtSub)
            /\ IsSortedByCreated(conns[c].written)
            /\ \A e \in conns[c].pendingAtSub :
                 events[e].user_id = conns[c].user /\ events[e].sent_at # Null)
  /\ [][\A c \in ConnIds :
          (conns[c].replay # <<>> /\ (conns'[c] = NoConn \/ conns'[c].replay # conns[c].replay)) =>
            events'[Head(conns[c].replay)].status = "sent"]_vars

\* an open subscription replayed a pending event while an event that was no longer
\* pending existed
C9_Witness ==
  \E c \in ConnIds :
    /\ conns[c].open
    /\ conns[c].replay = <<>>
    /\ Len(conns[c].written) >= 1
    /\ \E e \in EventIds : e < conns[c].written[1] /\ e \notin conns[c].pendingAtSub

\* C11: however often a successful result with a payload is received for an event, the
\* event stays completed with that payload and exactly one process-link task carrying
\* the payload is spawned for it
C11_OneRespawnPerEvent ==
  \A e \in EventIds :
    Cardinality({t \in TaskIds : tasks[t].ev = e /\ tasks[t].scrapeData # NoData}) <= 1

RelRows(a, b) == {r \in rels : r.link_id = a /\ r.related_link_id = b}

\* C12 as stated: for distinct links a and b at most one of the rows (a,b), (b,a) is
\* stored
C12_OneRowPerUnorderedPair ==
  \A a, b \in 1..NumRelLinks : a # b => (RelRows(a, b) = {} \/ RelRows(b, a) = {})

\* C12 amended: at most one row per ordered pair (link_id, related_link_id), and no row
\* relates a link to itself
C12_OneRowPerOrderedPair ==
  /\ \A r, q \in rels :
       (r.link_id = q.link_id /\ r.related_link_id = q.related_link_id) => r = q
  /\ \A r \in rels : r.link_id # r.related_link_id

\* both directions of one pair are stored, with different scores
C12_Witness ==
  \E r, q \in rels :
    r.link_id = q.related_link_id /\ r.related_link_id = q.link_id /\ r.score # q.score

\* C13: every stored relation has a score of at least the threshold
C13_ScoreAtLeastThreshold == \A r \in rels : r.score >= RELATED_SCORE_THRESHOLD

\* a search returned a candidate below the threshold and one exactly at it: the row
\* with the threshold score is stored
C13_Witness ==
  \E i \in LinkIds :
    /\ \E k \in 1..Len(links[i].searched) : links[i].searched[k].score < RELATED_SCORE_THRESHOLD
    /\ \E r \in rels : r.link_id = i /\ r.score = RELATED_SCORE_THRESHOLD

\* the links related to a by a row in either direction
Neighbours(a) ==
  {r.related_link_id : r \in {x \in rels : x.link_id = a}}
    \cup {r.link_id : r \in {x \in rels : x.related_link_id = a}}

Shown(a, outRev, inRev) ==
  {e.relatedLinkId : e \in Range(getRelatedLinks(a, outRev, inRev))}

\* C14 as stated: GetRelations(a) contains b iff GetRelations(b) contains a
C14_SymmetricView ==
  \A a \in LinkIds : \A o1, o2 \in BOOLEAN :
    \A b \in Shown(a, o1, o2) : \A o3, o4 \in BOOLEAN : a \in Shown(b, o3, o4)

\* C14 amended: for links a and b that each have at most five related links (by rows in
\* either direction), GetRelations(a) contains b iff GetRelations(b) contains a, and
\* this is so exactly when a row (a,b) or (b,a) is stored
C14_SymmetricWithinCap ==
  \A o1, o2 \in BOOLEAN :
    LET view == [a \in LinkIds |-> Shown(a, o1, o2)]
        small == {a \in LinkIds : Cardinality(Neighbours(a)) <= GET_RELATED_MAX}
    IN \A a, b \in small :
         /\ b \in view[a] <=> a \in view[b]
         /\ b \in view[a] <=> (RelRows(a, b) # {} \/ RelRows(b, a) # {})

\* a link is shown by a link it has no outgoing row to, and a link with six related
\* links exists
C14_Witness ==
  /\ \E a, b \in LinkIds :
       /\ RelRows(a, b) = {}
       /\ RelRows(b, a) # {}
       /\ b \in Shown(a, FALSE, FALSE)
  /\ \E a \in LinkIds : Cardinality(Neighbours(a)) > GET_RELATED_MAX

MaxScore(a, b) ==
  LET scores == {r.score : r \in RelRows(a, b) \cup RelRows(b, a)}
  IN CHOOSE m \in scores : \A x \in scores : x <= m

\* C15: GetRelations(linkId) has one entry per shown link, each a link related to
\* linkId by an outgoing or incoming row and carrying the highest score among those
\* rows; the entries are sorted by score descending; there are five entries when more
\* than five links are related (all of them otherwise), and no related link left out
\* has a higher score than one shown
C15_GetRelationsContract ==
  \A a \in LinkIds : \A o1, o2 \in BOOLEAN :
    LET R == getRelatedLinks(a, o1, o2)
        N == Neighbours(a)
    IN /\ \A k \in 1..Len(R) :
            /\ R[k].relatedLinkId \in N
            /\ R[k].score = MaxScore(a, R[k].relatedLinkId)
       /\ \A j, k \in 1..Len(R) :
            j < k => (R[j].relatedLinkId # R[k].relatedLinkId /\ R[j].score >= R[k].score)
       /\ Len(R) = (IF Cardinality(N) < GET_RELATED_MAX THEN Cardinality(N) ELSE GET_RELATED_MAX)
       /\ \A b \in N \ {R[k].relatedLinkId : k \in 1..Len(R)} :
            \A k \in 1..Len(R) : MaxScore(a, b) <= R[k].score

\* a link with six related links, five outgoing and one incoming, of which the read
\* shows five with two different scores
C15_Witness ==
  \E a \in LinkIds :
    /\ Cardinality(Neighbours(a)) > GET_RELATED_MAX
    /\ \E b \in Neighbours(a) : RelRows(a, b) = {}
    /\ LET R == getRelatedLinks(a, FALSE, FALSE)
       IN Len(R) = GET_RELATED_MAX /\ R[1].score > R[GET_RELATED_MAX].score

\* the candidates in the order the claim fixes: higher score first, lower id first on
\* equal scores
RECURSIVE ByScoreThenId(_)
ByScoreThenId(S) ==
  IF S = {} THEN <<>>
  ELSE LET first == CHOOSE x \in S : \A y \in S :
                      x.score > y.score \/ (x.score = y.score /\ x.id <= y.id)
       IN <<first>> \o ByScoreThenId(S \ {first})

\* C16: the related step retains exactly the search results with score >= 0.65, the
\* five highest-scoring ones when more than five pass, ordered by score descending and
\* on equal scores by ascending link id; that list is what it saves and returns
C16_RetainsTopFiveTieByLowerId ==
  \A i \in LinkIds :
    LET passing == {r \in Range(links[i].searched) : r.score >= RELATED_SCORE_THRESHOLD}
        expected == Take(ByScoreThenId(passing), RELATED_MAX_COUNT)
    IN /\ links[i].related_links = expected
       /\ linkSeq = Cardinality(LinkIds) =>
            {[id |-> r.related_link_id, score |-> r.score] : r \in {x \in rels : x.link_id = i}}
              = Range(expected)

\* C17: deleteLinkFull(A) leaves no LinkRelation row that references A, no row ever
\* references a link that does not exist, and GetRelations of a remaining link never
\* contains a deleted link
C17_DeleteLeavesNoRelation ==
  /\ [][\A A \in 1..NumRelLinks :
          (links[A] # NoLink /\ links'[A] = NoLink) =>
            \A r \in rels' : r.link_id # A /\ r.related_link_id # A]_vars
  /\ [](\A r \in rels : r.link_id \in LinkIds /\ r.related_link_id \in LinkIds)
  /\ [](\A X \in LinkIds : \A o1, o2 \in BOOLEAN : Shown(X, o1, o2) \subseteq LinkIds)

\* the cached list of link i names link A
References(link, A) ==
  \E k \in 1..Len(link.related_links) :
    \/ link.related_links[k] = JsonNumber(A)
    \/ ("id" \in DOMAIN link.related_links[k] /\ link.related_links[k].id = A)

\* a link was deleted that a remaining link had a relation to (its cached list still
\* names it), and that link's other relations remain
C17_Witness ==
  \E A \in 1..NumRelLinks :
    /\ links[A] = NoLink
    /\ \E i \in LinkIds :
         /\ References(links[i], A)
         /\ \E r \in rels : r.link_id = i
         /\ Len(links[i].related_links) > Cardinality({r \in rels : r.link_id = i})

\* C18: deleteLinkFull(A) reports as relatedLinksUpdated the number of other links
\* whose cached related list referenced A, and afterwards no remaining link's cached
\* list references A
C18_DeleteScrubsCachedLists ==
  [][\A A \in 1..NumRelLinks :
       (links[A] # NoLink /\ links'[A] = NoLink) =>
         /\ relatedLinksUpdated(links, A)
              = Cardinality({i \in LinkIds \ {A} : References(links[i], A)})
         /\ \A i \in 1..NumRelLinks : links'[i] # NoLink => ~References(links'[i], A)]_vars

\* C19: a process-link task whose worker was killed during summarize and that later
\* completed analyzed did not run the scrape body again and ran the summarize body
\* after the kill, and the link it had scraped carries the title, markdown, summary,
\* tags, vector and insight of an uninterrupted run
C19_ResumeAfterKillInSummarize ==
  \A t \in TaskIds :
    (Analyzed(t) /\ tasks[t].killed > 0) =>
      /\ \A k \in tasks[t].killed..Len(tasks[t].log) : tasks[t].log[k] # "scrape"
      /\ \E k \in tasks[t].killed..Len(tasks[t].log) : tasks[t].log[k] = "summarize"
      /\ LET link == getLink(tasks[t].row)
         IN /\ link # NoLink
            /\ link.og_title = "T"
            /\ link.markdown = "md"
            /\ link.summary = "S"
            /\ link.tags = "[t]"
            /\ link.summary_embedding = "vec"
            /\ link.insight = "I"

RowsOf(userId, url) == {i \in LinkIds : links[i].user_id = userId /\ links[i].url = url}

HasAnalyzedRow(userId, url) == \E i \in RowsOf(userId, url) : links[i].status = "analyzed"

Resubmitted(t) ==
  /\ t \in TaskIds
  /\ tasks[t].kind = "process-link"
  /\ tasks[t].scrapeData = NoData
  /\ ~isTwitterUrl(tasks[t].url)
  /\ tasks[t].state = "queued"
  /\ tasks[t].attempts = 0
  /\ HasAnalyzedRow(tasks[t].userId, tasks[t].url)

Ended(t) == t \in TaskIds /\ tasks[t].state \in {"completed", "failed"}

C21_CatchWritesErrorAndRethrows ==
  [][\A t \in TaskIds :
       /\ tasks'[t].attempts <= ProcessLinkMaxAttempts
       /\ tasks[t].state = "failed" => tasks'[t] = tasks[t]
       \* the catch of a non-permanent exception counts the attempt, unless the worker dies
       /\ (tasks[t].kind = "process-link" /\ tasks[t].at = "catch" /\ tasks'[t].at # "catch"
            /\ tasks[t].err \notin permanentErrors)
          => \/ tasks'[t].attempts = tasks[t].attempts + 1
             \/ faults' = faults + 1 /\ tasks'[t].state = "queued"
                  /\ tasks'[t].attempts = tasks[t].attempts
       \* an attempt is counted by that catch alone, after its write to the link
       /\ (tasks[t].kind = "process-link" /\ tasks'[t].attempts # tasks[t].attempts)
          => /\ tasks[t].at = "catch" /\ tasks[t].err \notin permanentErrors
             /\ links'[tasks[t].lid].status = "error"
             /\ links'[tasks[t].lid].error_message = "err"
             /\ links'[tasks[t].lid].error_message_len <= ERROR_MESSAGE_MAX
             /\ links'[tasks[t].lid].error_message_len =
                  (IF tasks[t].errLen > ERROR_MESSAGE_MAX THEN ERROR_MESSAGE_MAX
                   ELSE tasks[t].errLen)
             /\ tasks'[t].attempts = tasks[t].attempts + 1
             /\ tasks'[t].state = (IF tasks[t].attempts + 1 < ProcessLinkMaxAttempts
                                   THEN "queued" ELSE "failed")
       /\ (tasks[t].kind = "process-link" /\ tasks[t].state # "failed"
            /\ tasks'[t].state = "failed")
          => /\ tasks'[t].attempts = ProcessLinkMaxAttempts
             /\ links'[tasks[t].lid].status = "error"]_vars

WorkerDied(t) ==
  /\ faults' = faults + 1
  /\ tasks'[t].state = "queued"
  /\ tasks'[t].attempts = tasks[t].attempts

C22_PermanentErrorCompletes ==
  /\ [][\A t \in TaskIds :
          tasks[t].kind = "process-link" =>
            /\ (tasks[t].at = "catch" /\ tasks[t].err \in permanentErrors
                 /\ tasks'[t] # tasks[t])
               => \/ WorkerDied(t)
                  \/ /\ links'[tasks[t].lid].status = "error"
                     /\ tasks'[t].at = "return"
                     /\ tasks'[t].result = "error"
                     /\ tasks'[t].state = "running"
                     /\ tasks'[t].attempts = tasks[t].attempts
            /\ (tasks[t].at = "return" /\ tasks[t].result = "error" /\ tasks'[t] # tasks[t])
               => \/ WorkerDied(t)
                  \/ /\ tasks'[t].state = "completed"
                     /\ tasks'[t].result = "error"
                     /\ tasks'[t].attempts = tasks[t].attempts
            /\ tasks[t].state = "completed" => tasks'[t] = tasks[t]]_vars
  /\ \A t \in 1..MaxTasks :
       (t \in TaskIds /\ tasks[t].at = "catch" /\ tasks[t].err \in permanentErrors)
         ~> (t \in TaskIds /\ tasks[t].state \in {"completed", "queued"})

C22_Witness ==
  \E t \in TaskIds :
    /\ tasks[t].kind = "process-link"
    /\ tasks[t].state = "completed"
    /\ tasks[t].result = "error"
    /\ tasks[t].attempts < ProcessLinkMaxAttempts
    /\ \E i \in LinkIds : links[i].url = tasks[t].url /\ links[i].status = "error"

\* C23: a poll of /api/auth/token answers invalid_device_code for a code no request has,
\* expired_token for a request past its expiry, authorization_pending for an unexpired
\* pending one, and creates no ProbeDevice in these cases; for an unexpired authorized
\* request it creates one new ProbeDevice of the request's user with an lmp_ token no
\* other device has and answers with that token and user; nothing else creates devices
Polled == resp'.op = "token" /\ (resp' # resp \/ devices' # devices)

C23_PollDeviceTokenOutcomes ==
  [][/\ devices' # devices => Polled /\ resp'.http = 200
     /\ Polled =>
          LET d == resp'.device_code IN
          IF d \notin DOMAIN authReqs
          THEN resp'.http = 400 /\ resp'.error = "invalid_device_code" /\ devices' = devices
          ELSE IF authReqs[d].expires_at < now
          THEN resp'.http = 400 /\ resp'.error = "expired_token" /\ devices' = devices
          ELSE IF authReqs[d].status = "pending"
          THEN resp'.http = 400 /\ resp'.error = "authorization_pending"
               /\ devices' = devices
          ELSE /\ authReqs[d].status = "authorized"
               /\ authReqs[d].user_id \in AuthUsers
               /\ resp'.http = 200
               /\ Len(devices') = Len(devices) + 1
               /\ \A k \in DOMAIN devices : devices'[k] = devices[k]
               /\ LET device == devices'[Len(devices')] IN
                  /\ device.user_id = authReqs[d].user_id
                  /\ device.access_token.prefix = "lmp_"
                  /\ \A k \in DOMAIN devices :
                       /\ devices[k].access_token # device.access_token
                       /\ devices[k].id # device.id
                  /\ resp'.access_token = device.access_token
                  /\ resp'.user_id = authReqs[d].user_id]_vars

C23_Witness ==
  /\ Len(devices) = 2
  /\ devices[1].user_id # devices[2].user_id
  /\ resp.op = "token" /\ resp.http = 400 /\ resp.error = "expired_token"
  /\ \E d \in DOMAIN authReqs : authReqs[d].status = "authorized" /\ authReqs[d].expires_at < now

\* C24: a request that is authorized keeps its user and its status
C24_AuthorizedUserNeverChanges ==
  [][\A d \in DOMAIN authReqs :
       authReqs[d].status = "authorized" => authReqs'[d] = authReqs[d]]_vars

\* C25: a result posted for an event id that no event has, or for an event of another
\* user than the posting device's, is answered 404 and changes no event, spawns no task
\* and changes no link
Posted == resp'.op = "receive_result" /\ resp'.n # resp.n

C25_ForeignOrUnknownEventRejected ==
  [][(Posted /\ (resp'.event_id \notin EventIds
                 \/ events[resp'.event_id].user_id # resp'.user))
       => /\ resp'.http = 404
          /\ events' = events
          /\ tasks' = tasks
          /\ links' = links]_vars

C25_Witness ==
  /\ resp.op = "receive_result" /\ resp.http = 404 /\ resp.success
  /\ resp.event_id \in EventIds
  /\ events[resp.event_id].user_id # resp.user
  /\ events[resp.event_id].status = "sent"
  /\ tasks = <<>>

Calls == {c \in DOMAIN saving : saving[c] # NoCall}

C27_NoGapObserved ==
  \A c \in Calls :
    (saving[c].pc = "insert" /\ saving[c].old # {})
      => Outgoing(rels, saving[c].linkId) # {}

C27_BothCallsSucceed == \A c \in Calls : saving[c].pc # "failed"

C27_RowsOfOneCall ==
  \A l \in SaveLinks :
    LET of == {c \in Calls : saving[c].linkId = l} IN
    (of # {} /\ \A c \in of : saving[c].pc = "done")
      => \E c \in of : Outgoing(rels, l) = NewRows(l, saving[c].relations)

C27_SaveRelationsAtomic ==
  /\ C27_NoGapObserved
  /\ C27_BothCallsSucceed
  /\ C27_RowsOfOneCall

\* C28: per link the steps take effect in the declared order, also with two process-link
\* tasks running on one link: while a task is running on a link, no other task's step
\* takes effect on that link that is declared before a step the running task has
\* already applied to it
StepIndex(name) == CHOOSE k \in DOMAIN Steps : Steps[k] = name

StepTaken(t) == Len(tasks'[t].log) = Len(tasks[t].log) + 1

C28_PerLinkDeclaredOrder ==
  [][\A t, u \in TaskIds :
       (/\ t # u
        /\ tasks[t].kind = "process-link" /\ tasks[u].kind = "process-link"
        /\ tasks[u].state = "running"
        /\ tasks[t].lid # 0 /\ tasks[u].lid = tasks[t].lid
        /\ StepTaken(t))
       => \A k \in DOMAIN tasks[u].log :
            StepIndex(tasks[u].log[k]) <= StepIndex(tasks'[t].log[Len(tasks'[t].log)])]_vars

\* C29: the k-th wait since the start or the last successful connect lasts 5, 10, 20,
\* 40, 60, 60, ... seconds, no wait exceeds 60 seconds, and the wait after the loss of
\* a connection is 5 seconds
Schedule(k) ==
  CASE k = 1 -> 5000 [] k = 2 -> 10000 [] k = 3 -> 20000 [] k = 4 -> 40000 [] OTHER -> 60000

C29_BackoffSchedule ==
  /\ daemon.lastWait <= 60000
  /\ daemon.wait <= daemon.lastWait
  /\ daemon.waits > 0 => daemon.lastWait = Schedule(daemon.waits)
  /\ daemon.state = "connected" => daemon.backoff = 5000

C29_Witness ==
  /\ daemon.state = "waiting"
  /\ daemon.waits = 6
  /\ daemon.lastWait = 60000

Cancelled == daemon'.cancelled /\ ~daemon.cancelled

\* a step of a scrape in flight, which leaves the loop and its timers as they are
SameLoop ==
  [daemon' EXCEPT !.scraping = 0, !.uploading = 0, !.failed = FALSE]
    = [daemon EXCEPT !.scraping = 0, !.uploading = 0, !.failed = FALSE]

Daemons == {p \in Pids : probe.procs[p] \in {"daemon", "signalled"}}

\* the PID file names a live daemon process
DaemonRunning == readPid(probe) \in Daemons

\* C31: a background `run` of a logged-in user, invoked while the PID file names a live
\* daemon, starts no process and ends with a non-zero exit code
C31_AlreadyRunningExitsNonZero ==
  [][(DaemonRunning /\ RunCommand(FALSE, TRUE))
       => /\ probe'.procs = probe.procs
          /\ probe'.exit.cmd = "run"
          /\ probe'.exit.code # 0]_vars

(* ---------------------------------------------------------------- *)
(* C32: the PID file as the daemon lock                              *)
(* ---------------------------------------------------------------- *)
\* C32: at most one daemon process runs, and while one runs the PID file holds its PID
C32_PidFileIsLock ==
  /\ Cardinality(Daemons) <= 1
  /\ \A p \in Daemons : readPid(probe) = p

(* ---------------------------------------------------------------- *)
(* C33: the reset at the start of processing an existing link        *)
(* ---------------------------------------------------------------- *)
\* task t takes the step that resets existing link i
Resets(t, i) ==
  \/ Resolve(t) /\ tasks[t].linkId = i
  \/ Upsert(t) /\ tasks[t].found = i

\* C33: the reset of an existing link leaves it pending without an error message, and an
\* analyzed link carries no error message
C33_ResetClearsErrorMessage ==
  /\ [][\A t \in TaskIds, i \in LinkIds :
          Resets(t, i) => /\ links'[i].status = "pending"
                          /\ links'[i].error_message = Null]_vars
  /\ [](\A i \in LinkIds : links[i].status = "analyzed" => links[i].error_message = Null)

(* ---------------------------------------------------------------- *)
(* C34: scrapes run beside the event loop                            *)
(* ---------------------------------------------------------------- *)
\* a scrape or an upload of the process fails
ScrapeFails ==
  \/ ScrapeEnds(FALSE)
  \/ \E outcome \in {"rejected", "threw"} : UploadEnds(outcome)

\* C34: while scrapes are in flight on an open connection, the loop takes the next
\* event: a ping that is due and a further scrape_request are processed, every
\* processed event restarts the heartbeat period and leaves the connection open, a
\* scrape_request adds a scrape to those in flight; a failing scrape or upload leaves
\* the loop, its timers and its connection as they are
C34_LoopNeverBlocksOnScrape ==
  /\ [][\A eventType \in {"ping", "scrape_request", "unknown"} :
          (InFlight(daemon) > 0 /\ SseEvent(eventType))
            => /\ daemon'.state = "connected"
               /\ daemon'.sinceEvent = 0
               /\ daemon'.toCheck = daemon.toCheck
               /\ InFlight(daemon') =
                    InFlight(daemon) + IF eventType = "scrape_request" THEN 1 ELSE 0]_vars
  /\ [][ScrapeFails => SameLoop /\ InFlight(daemon') <= InFlight(daemon)]_vars
  /\ [](daemon.state = "connected" /\ InFlight(daemon) > 0
          => /\ ENABLED SseEvent("unknown")
             /\ (daemon.pinged /\ daemon.toPing = 0) => ENABLED SseEvent("ping")
             /\ InFlight(daemon) < MaxScrapes => ENABLED SseEvent("scrape_request"))

\* a second scrape was started while the first was in flight, after a scrape of this
\* process had failed, and the connection is open with its heartbeat just restarted
C34_Witness ==
  /\ daemon.state = "connected"
  /\ daemon.failed
  /\ daemon.scraping = 1
  /\ daemon.uploading = 1
  /\ daemon.sinceEvent = 0
  /\ daemon.toCheck < HEARTBEAT_CHECK

(* ---------------------------------------------------------------- *)
(* C35: shutdown by SIGTERM or SIGINT                                *)
(* ---------------------------------------------------------------- *)
LoopOver == daemon.state \in {"aborted", "exited"}

\* C35: the signal handler aborts the loop in whatever phase it is (connecting, reading
\* the stream, waiting to reconnect) and removes the PID file; the wait is cancelled,
\* the connection is gone, from then on the loop takes no step but its exit, which
\* follows, and no connection is attempted or opened again
C35_ShutdownEndsLoop ==
  /\ [][cleanup(1) => /\ daemon.state \in {"connecting", "connected", "waiting"}
                       /\ daemon'.state = "aborted"
                       /\ daemon'.wait = 0
                       /\ readPid(probe') = 0]_vars
  /\ [][LoopOver => /\ daemon'.state \in {"aborted", "exited"}
                     /\ ~(\E pinged \in BOOLEAN : ConnectOk(pinged))
                     /\ ~ConnectFail
                     /\ ~WaitOver
                     /\ readPid(probe') = 0]_vars
  /\ [](LoopOver => readPid(probe) = 0 /\ probe.procs[1] \in {"stopping", "gone"})
  /\ [](daemon.state = "exited" => InFlight(daemon) = 0 /\ probe.procs[1] = "gone")
  /\ (daemon.state = "aborted") ~> (daemon.state = "exited")

\* the signal arrived while the loop waited to reconnect, and the process has exited
C35_Witness ==
  /\ daemon.state = "exited"
  /\ daemon.abortedIn = "waiting"
  /\ daemon.lastWait = maxBackoff
  /\ probe.procs[1] = "gone"
  /\ readPid(probe) = 0

(* ---------------------------------------------------------------- *)
(* C36: terminal statuses of a probe event                           *)
(* ---------------------------------------------------------------- *)
\* C36: an event that is completed or error keeps its status in every step
C36_TerminalStatusNeverChanges ==
  [][\A e \in EventIds :
       events[e].status \in {"completed", "error"}
         => events'[e].status = events[e].status]_vars

(* ---------------------------------------------------------------- *)
(* C37: probe events of one process-link task                        *)
(* ---------------------------------------------------------------- *)
\* C37: over all its attempts a task creates at most one probe event
C37_OneEventPerTask ==
  \A t \in TaskIds : Cardinality(tasks[t].evs) <= 1

(* ---------------------------------------------------------------- *)
(* C38: who receives a scrape_request                                *)
(* ---------------------------------------------------------------- *)
\* the scrape_requests written to sink c, by the replay and by live pushes
Received(c) == Range(conns[c].written) \cup conns[c].got

\* every sink is registered under the owner of a device, holds only events of that
\* user, and a subscription registers its sink under the owner of the presented token
C38_OnlyToOwnersSinks ==
  /\ [](\A c \in ConnIds :
          /\ \E d \in DOMAIN devices : devices[d].user_id = conns[c].user
          /\ \A e \in Received(c) : events[e].user_id = conns[c].user)
  /\ [][\A n \in 1..3, c \in 1..MaxConns :
          (SubscribeEvents(Token(n)) /\ conns[c] = NoConn /\ conns'[c] # NoConn)
            => /\ getProbeDeviceByToken(Token(n)) # NoDevice
               /\ conns'[c].user = getProbeDeviceByToken(Token(n)).user_id
               /\ \A e \in Range(conns'[c].replay) : events[e].user_id = conns'[c].user]_vars

\* a sink whose connection closed is out of the map and no write goes to it: neither a
\* live push nor a turn of the replay loop
C38_ClosedSinkLeftAlone ==
  [][\A c \in ConnIds :
       ~conns[c].open => /\ c \notin probeConnections(conns[c].user)
                         /\ ~ReplayNext(c)
                         /\ conns'[c] # NoConn => Received(c)' = Received(c)]_vars

\* C38: a scrape_request of an event of user u is written only to sinks that subscribed
\* with the token of a device of u, in live pushes and in the replay, and nothing is
\* written to a sink after its connection closed
C38_ScrapeRequestsOnlyToOwner ==
  C38_OnlyToOwnersSinks /\ C38_ClosedSinkLeftAlone

(* ---------------------------------------------------------------- *)
(* C39: what a relation row joins                                    *)
(* ---------------------------------------------------------------- *)
\* C39: every row of link_relations joins two different links that both exist and
\* belong to the same user
C39_RowsJoinLinksOfOneUser ==
  \A r \in rels :
    /\ r.link_id # r.related_link_id
    /\ r.link_id \in LinkIds
    /\ r.related_link_id \in LinkIds
    /\ links[r.link_id].user_id = links[r.related_link_id].user_id

\* rows of both users are stored, one of them written by the related step of a task,
\* after a link was deleted
C39_Witness ==
  /\ \A u \in 1..2 : \E r \in rels : links[r.link_id].user_id = u
  /\ Cardinality(LinkIds) < NumOwnerLinks
  /\ \E t \in TaskIds, r \in rels :
       /\ tasks[t].state = "completed"
       /\ tasks[t].linkId = r.link_id

\* a call of deleteLinkFull(id) that returned or threw
Deleting(id) == resp' # resp /\ resp'.op = "delete" /\ resp'.id = id

\* C40: deleteLinkFull succeeds for every existing link and removes its row, also for
\* a link that probe events reference, and no probe event ever references a link that
\* does not exist
C40_DeleteSucceedsForEveryLink ==
  /\ [][\A id \in 1..MaxLinks :
          Deleting(id) => ~resp'.threw /\ links'[id] = NoLink]_vars
  /\ [](\A e \in EventIds : events[e].link_id \in LinkIds)

====
